---------------------------- MODULE Spec2Model ----------------------------
(***************************************************************************)
(* A model of the Pandos nucleus (phase 1: pcb.c, asl.c; phase 2:          *)
(* initial.c, scheduler.c, exceptions.c, interrupts.c).                    *)
(*                                                                         *)
(* The kernel's data structures are modelled at the level of the pointers  *)
(* the C code manipulates: a PCB is an index 1..MAXPROC, a semaphore       *)
(* descriptor an index 1..MAXSEMDS, and each pointer field is a function   *)
(* from indices to indices or NULL.  Every C function is an operator from  *)
(* a record of the whole kernel state to the record after the call; the    *)
(* record carries the function's return value in `ret`.  A dereference of  *)
(* NULL, an out-of-bounds store or a loop that cannot end sets `ub`, and   *)
(* the machine is then in mode "undef".                                    *)
(***************************************************************************)
EXTENDS Integers, Sequences, FiniteSets, TLC

(***************************************************************************)
(* Bounds of the model.                                                    *)
(***************************************************************************)
MAXPROC == 5          \* size of the PCB pool (20 in const.h)
MaxSem == 1           \* a V or a device interrupt is taken only below this value
MaxTOD == 1           \* the time-of-day clock stops advancing here
MaxDrift == 1         \* how far processCount and softBlockedCount may leave 0..MAXPROC
MaxSteps == 9         \* entries into the nucleus and clock ticks in a behaviour of Spec
MaxDeviceSteps == 19  \* entries into the nucleus in a behaviour of SpecDevices

(***************************************************************************)
(* Program constants.                                                      *)
(***************************************************************************)
NULL == -1            \* (void *) 0xFFFFFFFF, as a signed word
MAXINT == 268435455   \* 0x0FFFFFFF
RAMSTART == 536870912 \* 0x20000000
MAX_DEVICE_COUNT == 49
BASE_LINE == 3
DEVPERINT == 8
LINE7 == 7
PLT_TIME_SLICE == 5000
INTERVAL_TIMER == 100000
PSECOND == 100000
(* A 32-bit timer value as its two 16-bit halves <<high, low>>. *)
Word(v) == <<(v \div 65536) % 65536, v % 65536>>
INF_TIME == <<65535, 65535>> \* 0xFFFFFFFF
SUCCESS_CONST == 0
ERROR_CONST == -1
READY == 1
PGFAULTEXCEPT == 0
GENERALEXCEPT == 1
EXC_RESERVED_INSTRUCTION == 10
MAXSEMDS == MAXPROC + 2
CLOCK_INDEX == MAX_DEVICE_COUNT - 1

Pcbs == 1..MAXPROC
(* Descriptor i is &semdTable[i - 1]; descriptor MAXSEMDS + 1 is the element  *)
(* one past the end of semdTable, which initASL also puts on the free list. *)
Semds == 1..(MAXSEMDS + 1)
DevIdx == 0..(MAX_DEVICE_COUNT - 1)

(***************************************************************************)
(* Addresses.  The kernel image and the test program live in RAM, above    *)
(* RAMSTART; semaphoreDevices is an int array, so its elements are 4 bytes *)
(* apart.  Two user semaphores are modelled, one below and one above the   *)
(* device table.                                                           *)
(***************************************************************************)
semaphoreDevicesAddr(i) == RAMSTART + 4096 + 4 * i
UserSems == {RAMSTART + 64}
IsDevAddr(a) == \E i \in DevIdx : a = semaphoreDevicesAddr(i)
DevIndexOf(a) == CHOOSE i \in DevIdx : a = semaphoreDevicesAddr(i)

(***************************************************************************)
(* Processor states.  A state_t is abstracted to four components: s_hdr    *)
(* stands for the words entryHI, status and pc (0: all zero, 1: a process  *)
(* stopped at an instruction, 2: the same with pc advanced by one word,    *)
(* 3 and up: states written by a process); s_cause is Cause.ExcCode; s_reg *)
(* stands for the general registers other than v0; s_v0 is register v0.    *)
(***************************************************************************)
ZeroState == [s_hdr |-> 0, s_cause |-> 0, s_reg |-> 0, s_v0 |-> 0]

VARIABLES
    pcbFree_h, p_next, p_prev, p_prnt, p_child, p_lSib, p_rSib,
    p_s, p_time, p_semAdd, p_supportStruct,
    semd_h, semdFree_h, s_next, s_semAdd, s_procQ,
    processCount, softBlockedCount, readyQueue, currentProcess,
    semaphoreDevices, start_TOD,
    mem,            \* the user semaphores: address -> value
    sup_exceptState,\* the support structures' saved states: support -> kind -> state
    tod,            \* the time-of-day clock
    plt,            \* the last value loaded into the processor local timer
    intervalTimer,  \* the interval timer: the value last loaded, 0 once it has run out
    allocated,      \* history: PCBs handed out by allocPcb and not yet given to freePcb
    readyOrder,     \* history: PCBs appended to the ready queue and not yet taken off it
    mode,           \* "run", "sched", "wait", "halt", "panic", "undef"; "lib" in a library test
    steps,          \* history: entries into the nucleus and clock ticks so far
    budget          \* the number of steps the behaviour may take

vars == <<pcbFree_h, p_next, p_prev, p_prnt, p_child, p_lSib, p_rSib,
          p_s, p_time, p_semAdd, p_supportStruct,
          semd_h, semdFree_h, s_next, s_semAdd, s_procQ,
          processCount, softBlockedCount, readyQueue, currentProcess,
          semaphoreDevices, start_TOD, mem, sup_exceptState, tod, plt,
          intervalTimer, allocated, readyOrder, mode, steps, budget>>

(***************************************************************************)
(* The kernel state as one record, threaded through the operators.         *)
(***************************************************************************)
Cur ==
    [pcbFree_h |-> pcbFree_h, p_next |-> p_next, p_prev |-> p_prev,
     p_prnt |-> p_prnt, p_child |-> p_child, p_lSib |-> p_lSib,
     p_rSib |-> p_rSib, p_s |-> p_s, p_time |-> p_time,
     p_semAdd |-> p_semAdd, p_supportStruct |-> p_supportStruct,
     semd_h |-> semd_h, semdFree_h |-> semdFree_h, s_next |-> s_next,
     s_semAdd |-> s_semAdd, s_procQ |-> s_procQ,
     processCount |-> processCount, softBlockedCount |-> softBlockedCount,
     readyQueue |-> readyQueue, currentProcess |-> currentProcess,
     semaphoreDevices |-> semaphoreDevices, start_TOD |-> start_TOD,
     mem |-> mem, sup_exceptState |-> sup_exceptState, tod |-> tod, plt |-> plt, intervalTimer |-> intervalTimer,
     allocated |-> allocated, readyOrder |-> readyOrder, mode |-> mode,
     ret |-> NULL, ub |-> FALSE]

Becomes(S) ==
    /\ pcbFree_h' = S.pcbFree_h
    /\ p_next' = S.p_next
    /\ p_prev' = S.p_prev
    /\ p_prnt' = S.p_prnt
    /\ p_child' = S.p_child
    /\ p_lSib' = S.p_lSib
    /\ p_rSib' = S.p_rSib
    /\ p_s' = S.p_s
    /\ p_time' = S.p_time
    /\ p_semAdd' = S.p_semAdd
    /\ p_supportStruct' = S.p_supportStruct
    /\ semd_h' = S.semd_h
    /\ semdFree_h' = S.semdFree_h
    /\ s_next' = S.s_next
    /\ s_semAdd' = S.s_semAdd
    /\ s_procQ' = S.s_procQ
    /\ processCount' = S.processCount
    /\ softBlockedCount' = S.softBlockedCount
    /\ readyQueue' = S.readyQueue
    /\ currentProcess' = S.currentProcess
    /\ semaphoreDevices' = S.semaphoreDevices
    /\ start_TOD' = S.start_TOD
    /\ mem' = S.mem
    /\ sup_exceptState' = S.sup_exceptState
    /\ tod' = S.tod
    /\ plt' = S.plt
    /\ intervalTimer' = S.intervalTimer
    /\ allocated' = S.allocated
    /\ readyOrder' = S.readyOrder
    /\ mode' = IF S.ub THEN "undef" ELSE S.mode

(* Let(v, F) is F(v) with v worked out once: a local variable of the code. *)
Let(v, F(_)) == CHOOSE r \in {F(y) : y \in {v}} : TRUE

Undefined(S) == [S EXCEPT !.ub = TRUE, !.ret = NULL]
Ret(S, v) == [S EXCEPT !.ret = v]

(***************************************************************************)
(* pcb.c: allocation.                                                      *)
(***************************************************************************)
(* freePcb putting the PCB behind the head of the free list. *)
freePcbSecond(S, p) ==
    IF S.ub \/ p = NULL THEN S
    ELSE IF S.pcbFree_h = NULL
    THEN [S EXCEPT !.p_next[p] = NULL, !.p_prev[p] = NULL,
                   !.pcbFree_h = p, !.allocated = @ \ {p}]
    ELSE [S EXCEPT !.p_next[p] = S.p_next[S.pcbFree_h], !.p_prev[p] = S.pcbFree_h,
                   !.p_next[S.pcbFree_h] = p, !.allocated = @ \ {p}]

freePcb(S, p) ==
    IF S.ub \/ p = NULL THEN S
    ELSE IF S.pcbFree_h = NULL
    THEN [S EXCEPT !.p_next[p] = NULL, !.p_prev[p] = NULL,
                   !.pcbFree_h = p, !.allocated = @ \ {p}]
    ELSE [S EXCEPT !.p_next[p] = S.pcbFree_h, !.p_prev[p] = NULL,
                   !.p_prev[S.pcbFree_h] = p,
                   !.pcbFree_h = p, !.allocated = @ \ {p}]

allocPcb(S) ==
    IF S.ub THEN S
    ELSE IF S.pcbFree_h = NULL THEN Ret(S, NULL)
    ELSE LET p == S.pcbFree_h IN
         [S EXCEPT !.pcbFree_h = S.p_next[p],
                   !.p_next[p] = NULL, !.p_prev[p] = NULL,
                   !.p_prnt[p] = NULL, !.p_child[p] = NULL,
                   !.p_lSib[p] = NULL, !.p_rSib[p] = NULL,
                   !.p_s[p] = [@ EXCEPT !.s_reg = 0, !.s_v0 = 0],
                   !.p_time[p] = 0, !.p_semAdd[p] = NULL,
                   !.p_supportStruct[p] = NULL,
                   !.allocated = @ \cup {p},
                   !.ret = p]


(***************************************************************************)
(* pcb.c: process queues.  A queue is named by the address of its tail     *)
(* pointer: tp = 0 is &readyQueue, tp = i > 0 is &(semdTable[i].s_procQ).  *)
(***************************************************************************)
TailOf(S, tp) == IF tp = 0 THEN S.readyQueue ELSE S.s_procQ[tp]

(* The history of the ready queue: p appended, p taken off. *)
Drop(q, p) ==
    IF \E i \in 1..Len(q) : q[i] = p
    THEN LET i == CHOOSE j \in 1..Len(q) : q[j] = p /\ \A k \in 1..(j - 1) : q[k] # p
         IN  SubSeq(q, 1, i - 1) \o SubSeq(q, i + 1, Len(q))
    ELSE q
Appended(S, tp, p) ==
    IF tp = 0 /\ ~S.ub THEN [S EXCEPT !.readyOrder = Append(@, p)] ELSE S
TakenOff(S, tp, p) ==
    IF tp = 0 /\ ~S.ub THEN [S EXCEPT !.readyOrder = Drop(@, p)] ELSE S
SetTailOf(S, tp, v) ==
    IF tp = 0 THEN [S EXCEPT !.readyQueue = v] ELSE [S EXCEPT !.s_procQ[tp] = v]

emptyProcQ(tp) == tp = NULL

(* insertProcQ leaving the tail pointer of a non-empty queue as it is: the *)
(* PCB becomes the head.                                                   *)
insertProcQAtHead(S, tp, p) ==
    IF S.ub \/ p = NULL THEN S
    ELSE IF TailOf(S, tp) = NULL
    THEN Appended(SetTailOf([S EXCEPT !.p_next[p] = p, !.p_prev[p] = p], tp, p), tp, p)
    ELSE LET tail == TailOf(S, tp)
             head == S.p_next[tail]
             S1 == [S EXCEPT !.p_next[tail] = p]
             S2 == [S1 EXCEPT !.p_prev[p] = tail]
             S3 == [S2 EXCEPT !.p_next[p] = head]
         IN  IF head = NULL THEN Undefined(S3)
             ELSE Appended([S3 EXCEPT !.p_prev[head] = p], tp, p)

insertProcQ(S, tp, p) ==
    IF S.ub \/ p = NULL THEN S
    ELSE IF TailOf(S, tp) = NULL
    THEN Appended(SetTailOf([S EXCEPT !.p_next[p] = p, !.p_prev[p] = p], tp, p), tp, p)
    ELSE LET tail == TailOf(S, tp)
             head == S.p_next[tail]
             S1 == [S EXCEPT !.p_next[tail] = p]
             S2 == [S1 EXCEPT !.p_prev[p] = tail]
             S3 == [S2 EXCEPT !.p_next[p] = head]
         IN  IF head = NULL THEN Undefined(S3)      \* head->p_prev
             ELSE Appended(SetTailOf([S3 EXCEPT !.p_prev[head] = p], tp, p), tp, p)

removeProcQ(S, tp) ==
    IF S.ub THEN S
    ELSE IF TailOf(S, tp) = NULL THEN Ret(S, NULL)
    ELSE LET tail == TailOf(S, tp)
             head == S.p_next[tail]
         IN  IF head = NULL THEN Undefined(S)       \* head->p_next
             ELSE IF head = tail
             THEN Ret(TakenOff([SetTailOf(S, tp, NULL) EXCEPT
                          !.p_next[head] = NULL, !.p_prev[head] = NULL], tp, head), head)
             ELSE LET hn == S.p_next[head]
                      S1 == [S EXCEPT !.p_next[tail] = hn]
                  IN  IF hn = NULL THEN Undefined(S1)   \* head->p_next->p_prev
                      ELSE LET S2 == [S1 EXCEPT !.p_prev[hn] = tail]
                           IN  Ret(TakenOff([S2 EXCEPT !.p_next[head] = NULL,
                                                       !.p_prev[head] = NULL], tp, head),
                                   head)

(* The do-while of outProcQ: `cur` is the element looked at, `n` the number *)
(* of elements already passed.  A walk longer than the pool never ends.     *)
RECURSIVE outProcQWalk(_, _, _, _, _)
outProcQWalk(S, tp, p, cur, n) ==
    IF cur = p
    THEN LET S1 == IF S.p_next[cur] = cur
                   THEN SetTailOf(S, tp, NULL)
                   ELSE LET pv == S.p_prev[cur]
                            nx == S.p_next[cur]
                        IN  IF pv = NULL THEN Undefined(S)
                            ELSE LET A == [S EXCEPT !.p_next[pv] = nx]
                                 IN  IF nx = NULL THEN Undefined(A)
                                     ELSE LET B == [A EXCEPT !.p_prev[nx] = pv]
                                          IN  IF cur = TailOf(B, tp)
                                              THEN SetTailOf(B, tp, B.p_prev[cur])
                                              ELSE B
         IN  IF S1.ub THEN S1
             ELSE Ret(TakenOff([S1 EXCEPT !.p_next[p] = NULL, !.p_prev[p] = NULL], tp, p),
                      p)
    ELSE LET nx == S.p_next[cur]
             head == S.p_next[TailOf(S, tp)]
         IN  IF nx = head THEN Ret(S, NULL)
             ELSE IF nx = NULL THEN Undefined(S)    \* current->p_next
             ELSE IF n > MAXPROC THEN Undefined(S)  \* the walk never returns to the head
             ELSE outProcQWalk(S, tp, p, nx, n + 1)

outProcQ(S, tp, p) ==
    IF S.ub THEN S
    ELSE IF TailOf(S, tp) = NULL \/ p = NULL THEN Ret(S, NULL)
    ELSE LET head == S.p_next[TailOf(S, tp)]
         IN  IF head = NULL THEN Undefined(S)
             ELSE outProcQWalk(S, tp, p, head, 0)

headProcQ(S, tp) == IF tp = NULL THEN NULL ELSE S.p_next[tp]

(***************************************************************************)
(* pcb.c: process trees.                                                   *)
(***************************************************************************)
emptyChild(S, p) == p = NULL \/ S.p_child[p] = NULL

insertChild(S, prnt, p) ==
    IF S.ub \/ prnt = NULL \/ p = NULL THEN S
    ELSE IF S.p_child[prnt] = NULL
    THEN [S EXCEPT !.p_child[prnt] = p, !.p_prnt[p] = prnt,
                   !.p_lSib[p] = NULL, !.p_rSib[p] = NULL]
    ELSE LET first == S.p_child[prnt]
             S1 == [S EXCEPT !.p_prnt[p] = prnt, !.p_lSib[p] = NULL]
             S2 == [S1 EXCEPT !.p_rSib[p] = first]
             S3 == [S2 EXCEPT !.p_lSib[first] = p]
         IN  IF first \notin Pcbs THEN Undefined(S2)  \* a pointer into no PCB
             ELSE [S3 EXCEPT !.p_child[prnt] = p]

removeChild(S, p) ==
    IF S.ub THEN S
    ELSE IF p = NULL \/ S.p_child[p] = NULL THEN Ret(S, NULL)
    ELSE LET child == S.p_child[p]
             S1 == [S EXCEPT !.p_child[p] = S.p_rSib[child]]
         IN  IF child \notin Pcbs THEN Undefined(S)   \* a pointer into no PCB
             ELSE Ret([S1 EXCEPT !.p_prnt[child] = NULL, !.p_rSib[child] = NULL,
                                 !.p_lSib[child] = NULL], child)

(* The search of outChild for the left neighbour of p. *)
RECURSIVE outChildWalk(_, _, _, _)
outChildWalk(S, p, cur, n) ==
    IF cur = NULL THEN NULL
    ELSE IF cur \notin Pcbs THEN 0                  \* a pointer into no PCB
    ELSE IF S.p_rSib[cur] = p THEN cur
    ELSE IF n > MAXPROC THEN 0                      \* the walk never ends
    ELSE outChildWalk(S, p, S.p_rSib[cur], n + 1)

outChild(S, p) ==
    IF S.ub THEN S
    ELSE IF p = NULL \/ S.p_prnt[p] = NULL THEN Ret(S, NULL)
    ELSE Let(LET prnt == S.p_prnt[p]
             IN  IF prnt \notin Pcbs THEN Undefined(S)    \* a pointer into no PCB
                 ELSE IF S.p_child[prnt] = p
                 THEN removeChild(S, prnt)
                 ELSE Let(outChildWalk(S, p, S.p_child[prnt], 0), LAMBDA cur :
                          IF cur = 0 THEN Undefined(S)
                          ELSE IF cur = NULL THEN Ret(S, NULL)
                          ELSE LET A == [S EXCEPT !.p_rSib[cur] = S.p_rSib[p]]
                               IN  IF S.p_rSib[p] # NULL /\ S.p_rSib[p] \notin Pcbs
                                   THEN Undefined(A)
                                   ELSE IF S.p_rSib[p] # NULL
                                   THEN Ret([A EXCEPT !.p_lSib[S.p_rSib[p]] = cur], p)
                                   ELSE Ret(A, p)),
             LAMBDA S1 :
                 IF S1.ub \/ S1.ret = NULL THEN S1
                 ELSE Ret([S1 EXCEPT !.p_prnt[p] = NULL, !.p_rSib[p] = NULL,
                                     !.p_lSib[p] = NULL], p))

(***************************************************************************)
(* asl.c: the active semaphore list.  Keys are compared as unsigned long.  *)
(***************************************************************************)
Unsigned(k) == Word(k)
ULess(a, b) == a[1] < b[1] \/ (a[1] = b[1] /\ a[2] < b[2])

freeSemd(S, s) ==
    IF S.ub \/ s = NULL THEN S
    ELSE IF S.semdFree_h = NULL
    THEN [S EXCEPT !.s_next[s] = NULL, !.semdFree_h = s]
    ELSE [S EXCEPT !.s_next[s] = S.semdFree_h, !.semdFree_h = s]

allocSemd(S) ==
    IF S.ub THEN S
    ELSE IF S.semdFree_h = NULL THEN Ret(S, NULL)
    ELSE LET n == S.semdFree_h
         IN  Ret([S EXCEPT !.semdFree_h = S.s_next[n], !.s_next[n] = NULL], n)

(* getSemd returns the first descriptor whose key is not below semAdd, and *)
(* through *prev the one before it: here the pair <<curr, prev>>.  A walk  *)
(* longer than the table never ends: <<0, 0>>.                             *)
RECURSIVE getSemdWalk(_, _, _, _, _)
getSemdWalk(S, semAdd, curr, parent, n) ==
    IF curr # NULL /\ ULess(Unsigned(S.s_semAdd[curr]), Unsigned(semAdd))
    THEN IF n > MAXSEMDS + 1 THEN <<0, 0>>
         ELSE getSemdWalk(S, semAdd, S.s_next[curr], curr, n + 1)
    ELSE <<curr, parent>>

getSemd(S, semAdd) == getSemdWalk(S, semAdd, S.semd_h, NULL, 0)

Found(S, g, semAdd) ==
    g[1] # NULL /\ Unsigned(S.s_semAdd[g[1]]) = Unsigned(semAdd)

insertBlocked(S, semAdd, p) ==
    IF S.ub THEN S
    ELSE Let(getSemd(S, semAdd), LAMBDA g :
         IF g[1] = 0 THEN Undefined(S)
         ELSE IF ~Found(S, g, semAdd) /\ S.semdFree_h = NULL THEN Ret(S, 1)
         ELSE Let(IF Found(S, g, semAdd) THEN Ret(S, g[1])
                  ELSE Let(allocSemd(S), LAMBDA A :
                           LET n == A.ret
                               B == [A EXCEPT !.s_semAdd[n] = semAdd,
                                              !.s_procQ[n] = NULL,
                                              !.s_next[n] = g[1]]
                           IN  IF g[2] = NULL THEN Undefined(B)    \* prev->s_next
                               ELSE Ret([B EXCEPT !.s_next[g[2]] = n], n)),
                  LAMBDA S1 :
                      IF S1.ub THEN S1
                      ELSE IF p = NULL THEN Undefined(S1)          \* p->p_semAdd
                      ELSE Ret(insertProcQ([S1 EXCEPT !.p_semAdd[p] = semAdd],
                                           S1.ret, p), 0)))

(* removeBlocked and outBlocked leaving an emptied descriptor in the list. *)
DropIfEmptyKeepsEntry(S, g) == S

(* The common end of removeBlocked and outBlocked: unlink an emptied       *)
(* descriptor and free it.                                                 *)
DropIfEmpty(S, g) ==
    IF S.ub \/ ~emptyProcQ(S.s_procQ[g[1]]) THEN S
    ELSE freeSemd(IF g[2] # NULL
                  THEN [S EXCEPT !.s_next[g[2]] = S.s_next[g[1]]]
                  ELSE S, g[1])

(* removeBlocked leaving the key in the PCB it returns. *)
removeBlockedKeepsKey(S, semAdd) ==
    IF S.ub THEN S
    ELSE Let(getSemd(S, semAdd), LAMBDA g :
         IF g[1] = 0 THEN Undefined(S)
         ELSE IF ~Found(S, g, semAdd) THEN Ret(S, NULL)
         ELSE Let(removeProcQ(S, g[1]), LAMBDA S1 :
                  Ret(DropIfEmpty(S1, g), S1.ret)))

removeBlocked(S, semAdd) ==
    IF S.ub THEN S
    ELSE Let(getSemd(S, semAdd), LAMBDA g :
         IF g[1] = 0 THEN Undefined(S)
         ELSE IF ~Found(S, g, semAdd) THEN Ret(S, NULL)
         ELSE Let(removeProcQ(S, g[1]), LAMBDA S1 :
                  LET removed == S1.ret
                      S2 == IF ~S1.ub /\ removed # NULL
                            THEN [S1 EXCEPT !.p_semAdd[removed] = NULL] ELSE S1
                  IN  Ret(DropIfEmpty(S2, g), removed)))

outBlocked(S, p) ==
    IF S.ub THEN S
    ELSE IF p = NULL \/ S.p_semAdd[p] = NULL THEN Ret(S, NULL)
    ELSE Let(getSemd(S, S.p_semAdd[p]), LAMBDA g :
         IF g[1] = 0 THEN Undefined(S)
         ELSE IF ~Found(S, g, S.p_semAdd[p]) THEN Ret(S, NULL)
         ELSE Let(outProcQ(S, g[1], p), LAMBDA S1 :
                  IF S1.ub \/ S1.ret = NULL THEN S1
                  ELSE Ret(DropIfEmpty(S1, g), S1.ret)))

(* headBlocked returning the tail of the queue. *)
headBlockedTail(S, semAdd) ==
    Let(getSemd(S, semAdd), LAMBDA g :
        IF g[1] = 0 THEN 0
        ELSE IF ~Found(S, g, semAdd) THEN NULL
        ELSE S.s_procQ[g[1]])

(* headBlocked changes nothing and is an operator to its result; 0 stands  *)
(* for a search that never ends.                                           *)
headBlocked(S, semAdd) ==
    Let(getSemd(S, semAdd), LAMBDA g :
        IF g[1] = 0 THEN 0
        ELSE IF ~Found(S, g, semAdd) THEN NULL
        ELSE headProcQ(S, S.s_procQ[g[1]]))

(***************************************************************************)
(* initial.c and scheduler.c.                                              *)
(***************************************************************************)
updateProcessTimeHelper(S, process, start, end) ==
    IF S.ub THEN S
    ELSE IF process = NULL THEN Undefined(S)
    ELSE [S EXCEPT !.p_time[process] = @ + (end - start)]

(* moveStateHelper copies every word of a state_t. *)
moveStateHelper(source_state) ==
    [s_hdr |-> source_state.s_hdr, s_cause |-> source_state.s_cause,
     s_reg |-> source_state.s_reg, s_v0 |-> source_state.s_v0]

(* LDST never returns: the machine runs the loaded process. *)
switchContext(S, target_process) ==
    IF S.ub THEN S
    ELSE IF target_process = NULL THEN Undefined(S)
    ELSE [S EXCEPT !.currentProcess = target_process,
                   !.start_TOD = S.tod,
                   !.mode = "run"]

(* scheduler() is the last call of every handler that reaches it and never *)
(* returns; a handler that calls it leaves the machine in mode "sched",    *)
(* where the only step is the scheduler's.                                 *)
CallScheduler(S) == IF S.ub THEN S ELSE [S EXCEPT !.mode = "sched"]

(* scheduler() dispatching without a time slice. *)
schedulerNoSlice(S) ==
    Let(removeProcQ(S, 0), LAMBDA R :
        LET S1 == [R EXCEPT !.currentProcess = R.ret]
        IN  IF R.ub THEN R
            ELSE IF S1.currentProcess # NULL
            THEN switchContext([S1 EXCEPT !.plt = INF_TIME], S1.currentProcess)
            ELSE IF S1.processCount = 0
            THEN [S1 EXCEPT !.mode = "halt"]
            ELSE IF S1.processCount > 0 /\ S1.softBlockedCount > 0
            THEN [S1 EXCEPT !.plt = INF_TIME, !.mode = "wait"]
            ELSE [S1 EXCEPT !.mode = "panic"])

scheduler(S) ==
    Let(removeProcQ(S, 0), LAMBDA R :
        LET S1 == [R EXCEPT !.currentProcess = R.ret]
        IN  IF R.ub THEN R
            ELSE IF S1.currentProcess # NULL
            THEN switchContext([S1 EXCEPT !.plt = Word(5000)], S1.currentProcess)
            ELSE IF S1.processCount = 0
            THEN [S1 EXCEPT !.mode = "halt"]
            ELSE IF S1.processCount > 0 /\ S1.softBlockedCount > 0
            THEN [S1 EXCEPT !.plt = INF_TIME, !.mode = "wait"]
            ELSE [S1 EXCEPT !.mode = "panic"])

(***************************************************************************)
(* exceptions.c.  `sv` is the saved exception state in the BIOS data page: *)
(* the four components of a state_t and, read out of it, the previous-mode *)
(* bit KUp of the status word (kup) and the registers a0..a3.              *)
(***************************************************************************)
Load(S, a) ==
    IF IsDevAddr(a) THEN S.semaphoreDevices[DevIndexOf(a)]
    ELSE IF a \in UserSems THEN S.mem[a]
    ELSE 0
Store(S, a, v) ==
    IF IsDevAddr(a) THEN [S EXCEPT !.semaphoreDevices[DevIndexOf(a)] = v]
    ELSE IF a \in UserSems THEN [S EXCEPT !.mem[a] = v]
    ELSE Undefined(S)                               \* a write outside RAM

addPigeonCurrentProcessHelper(S, sv) ==
    IF S.ub THEN S
    ELSE IF S.currentProcess = NULL THEN Undefined(S)
    ELSE [S EXCEPT !.p_s[S.currentProcess] = moveStateHelper(sv)]

blockCurrentProcessHelper(S, this_semaphore) ==
    Let(updateProcessTimeHelper(S, S.currentProcess, S.start_TOD, S.tod), LAMBDA S1 :
    Let(insertBlocked(S1, this_semaphore, S1.currentProcess), LAMBDA S2 :
        IF S2.ub THEN S2 ELSE [S2 EXCEPT !.currentProcess = NULL]))

(* The common end of the calls that return to the caller. *)
ChargeAndResume(S) ==
    switchContext(updateProcessTimeHelper(S, S.currentProcess, S.start_TOD, S.tod),
                  S.currentProcess)

(* createProcess counting the new process before it knows that allocPcb   *)
(* gave it a PCB.                                                          *)
createProcessCountsFailure(S, state_process, support_process) ==
    Let(allocPcb(S), LAMBDA A :
        LET new_pcb == A.ret
        IN  IF A.ub THEN A
            ELSE IF new_pcb # NULL
            THEN Let(insertChild([A EXCEPT !.p_s[new_pcb] = moveStateHelper(state_process),
                                           !.p_supportStruct[new_pcb] = support_process,
                                           !.p_time[new_pcb] = 0,
                                           !.p_semAdd[new_pcb] = NULL],
                                 A.currentProcess, new_pcb), LAMBDA C :
                 Let(insertProcQ(C, 0, new_pcb), LAMBDA D :
                     ChargeAndResume(
                         IF D.ub THEN D
                         ELSE [D EXCEPT !.p_s[D.currentProcess].s_v0 = SUCCESS_CONST,
                                        !.processCount = @ + 1])))
            ELSE ChargeAndResume([A EXCEPT !.p_s[A.currentProcess].s_v0 = ERROR_CONST,
                                      !.processCount = @ + 1]))

createProcess(S, state_process, support_process) ==
    Let(allocPcb(S), LAMBDA A :
        LET new_pcb == A.ret
        IN  IF A.ub THEN A
            ELSE IF new_pcb # NULL
            THEN Let(insertChild([A EXCEPT !.p_s[new_pcb] = moveStateHelper(state_process),
                                           !.p_supportStruct[new_pcb] = support_process,
                                           !.p_time[new_pcb] = 0,
                                           !.p_semAdd[new_pcb] = NULL],
                                 A.currentProcess, new_pcb), LAMBDA C :
                 Let(insertProcQ(C, 0, new_pcb), LAMBDA D :
                     ChargeAndResume(
                         IF D.ub THEN D
                         ELSE [D EXCEPT !.p_s[D.currentProcess].s_v0 = SUCCESS_CONST,
                                        !.processCount = @ + 1])))
            ELSE ChargeAndResume([A EXCEPT !.p_s[A.currentProcess].s_v0 = ERROR_CONST]))

(* terminateProcess is recursive on the children; `fuel` bounds the depth  *)
(* of the recursion, which on a tree of PCBs is at most the pool size.     *)
RECURSIVE terminateProcess(_, _, _)
RECURSIVE TerminateChildren(_, _, _)
TerminateChildren(S, terminate_process, fuel) ==
    IF S.ub \/ emptyChild(S, terminate_process) THEN S
    ELSE IF fuel = 0 THEN Undefined(S)
    ELSE Let(removeChild(S, terminate_process), LAMBDA R :
             TerminateChildren(terminateProcess(R, R.ret, fuel - 1),
                               terminate_process, fuel - 1))

terminateProcess(S, terminate_process, fuel) ==
    IF S.ub THEN S
    ELSE IF terminate_process \notin Pcbs THEN Undefined(S)
    ELSE Let(TerminateChildren(S, terminate_process, fuel), LAMBDA S1 :
         LET this_semaphore == S1.p_semAdd[terminate_process]
         IN  Let(freePcb(IF S1.ub THEN S1
                         ELSE IF terminate_process = S1.currentProcess
                         THEN outChild(S1, terminate_process)
                         ELSE IF this_semaphore # NULL
                         THEN Let(outBlocked(S1, terminate_process), LAMBDA B :
                                  IF B.ub THEN B
                                  ELSE IF ~(this_semaphore >= semaphoreDevicesAddr(0)
                                            /\ this_semaphore <= semaphoreDevicesAddr(CLOCK_INDEX))
                                  THEN Store(B, this_semaphore, Load(B, this_semaphore) + 1)
                                  ELSE [B EXCEPT !.softBlockedCount = @ - 1])
                         ELSE outProcQ(S1, 0, terminate_process),
                         terminate_process),
                 LAMBDA S3 : IF S3.ub THEN S3 ELSE [S3 EXCEPT !.processCount = @ - 1]))

passeren(S, this_semaphore) ==
    Let(Store(S, this_semaphore, Load(S, this_semaphore) - 1), LAMBDA S1 :
        IF Load(S1, this_semaphore) < 0
        THEN CallScheduler(blockCurrentProcessHelper(S1, this_semaphore))
        ELSE ChargeAndResume(S1))

verhogen(S, this_semaphore) ==
    Let(Store(S, this_semaphore, Load(S, this_semaphore) + 1), LAMBDA S1 :
        IF Load(S1, this_semaphore) <= 0
        THEN Let(removeBlocked(S1, this_semaphore), LAMBDA R :
                 ChargeAndResume(IF R.ret # NULL THEN insertProcQ(R, 0, R.ret) ELSE R))
        ELSE ChargeAndResume(S1))

WaitForIOIndex(interrupt_line_number, device_number, wait_for_read) ==
    LET semaphore_index == (interrupt_line_number - BASE_LINE) * DEVPERINT + device_number
    IN  IF interrupt_line_number = LINE7 /\ wait_for_read # 1
        THEN semaphore_index + DEVPERINT ELSE semaphore_index

waitForIO(S, interrupt_line_number, device_number, wait_for_read) ==
    Let(WaitForIOIndex(interrupt_line_number, device_number, wait_for_read),
        LAMBDA semaphore_index :
        LET S1 == [S EXCEPT !.softBlockedCount = @ + 1,
                            !.semaphoreDevices[semaphore_index] = @ - 1]
        IN  IF semaphore_index \notin DevIdx THEN Undefined(S)
            ELSE IF S1.semaphoreDevices[semaphore_index] < 0
            THEN CallScheduler(blockCurrentProcessHelper(
                     S1, semaphoreDevicesAddr(semaphore_index)))
            ELSE ChargeAndResume(S1))

getCPUTime(S) ==
    Let(updateProcessTimeHelper(S, S.currentProcess, S.start_TOD, S.tod), LAMBDA S1 :
        ChargeAndResume([S1 EXCEPT !.p_s[S.currentProcess].s_v0 =
                                      S1.p_time[S.currentProcess]]))

waitForClock(S) ==
    LET S1 == [S EXCEPT !.semaphoreDevices[CLOCK_INDEX] = @ - 1]
    IN  IF S1.semaphoreDevices[CLOCK_INDEX] < 0
        THEN CallScheduler(blockCurrentProcessHelper(
                 [S1 EXCEPT !.softBlockedCount = @ + 1],
                 semaphoreDevicesAddr(CLOCK_INDEX)))
        ELSE ChargeAndResume(S1)

getSupportData(S) ==
    ChargeAndResume([S EXCEPT !.p_s[S.currentProcess].s_v0 =
                                 S.p_supportStruct[S.currentProcess]])

TerminateFuel == 2 * MAXPROC + 2

passUpOrDie(S, sv, exception_code) ==
    IF S.ub THEN S
    ELSE IF S.currentProcess = NULL THEN Undefined(S)
    ELSE IF S.p_supportStruct[S.currentProcess] # NULL
    THEN LET sup == S.p_supportStruct[S.currentProcess]
             S1 == [S EXCEPT !.sup_exceptState[sup][exception_code] = moveStateHelper(sv)]
             S2 == updateProcessTimeHelper(S1, S1.currentProcess, S1.start_TOD, S1.tod)
         IN  IF sup \notin DOMAIN S.sup_exceptState THEN Undefined(S)
             ELSE [S2 EXCEPT !.mode = "run"]                 \* LDCXT
    ELSE Let(terminateProcess(S, S.currentProcess, TerminateFuel), LAMBDA S1 :
             IF S1.ub THEN S1
             ELSE CallScheduler([S1 EXCEPT !.currentProcess = NULL]))

sysCallOutRangeHandler(S, sv) == passUpOrDie(S, sv, GENERALEXCEPT)
programTrapHandler(S, sv) == passUpOrDie(S, sv, GENERALEXCEPT)
userModeTrapHandler(S, sv) == programTrapHandler(S, sv)
tlbTrapHandler(S, sv) == passUpOrDie(S, sv, PGFAULTEXCEPT)

systemTrapHandler(S, sv0) ==
    LET sysCallNum == sv0.a0
        sv == [sv0 EXCEPT !.s_hdr = @ + 1]                   \* s_pc += WORDLEN
    IN  IF sv.kup
        THEN userModeTrapHandler(S, [sv EXCEPT !.s_cause = EXC_RESERVED_INSTRUCTION])
        ELSE IF sysCallNum < 1 \/ sysCallNum > 8
        THEN sysCallOutRangeHandler(S, sv)
        ELSE Let(addPigeonCurrentProcessHelper(S, sv), LAMBDA S1 :
                 IF S1.ub THEN S1
                 ELSE CASE sysCallNum = 1 -> createProcess(S1, sv.a1, sv.a2)
                        [] sysCallNum = 2 ->
                             Let(terminateProcess(S1, S1.currentProcess, TerminateFuel),
                                 LAMBDA T :
                                     IF T.ub THEN T
                                     ELSE CallScheduler([T EXCEPT !.currentProcess = NULL]))
                        [] sysCallNum = 3 -> passeren(S1, sv.a1)
                        [] sysCallNum = 4 -> verhogen(S1, sv.a1)
                        [] sysCallNum = 5 -> waitForIO(S1, sv.a1, sv.a2, sv.a3)
                        [] sysCallNum = 6 -> getCPUTime(S1)
                        [] sysCallNum = 7 -> waitForClock(S1)
                        [] sysCallNum = 8 -> getSupportData(S1))

(* exceptionTrapHandler dispatches on Cause.ExcCode; the interrupt case is *)
(* interruptTrapHandler.  No handler returns, so the code after the switch *)
(* is never reached.                                                       *)
exceptionTrapHandler(S, sv) ==
    IF sv.s_cause \in 1..3 THEN tlbTrapHandler(S, sv)
    ELSE IF sv.s_cause = 8 THEN systemTrapHandler(S, sv)
    ELSE programTrapHandler(S, sv)

(***************************************************************************)
(* interrupts.c.  `hw` is what the hardware shows at the interrupt: ip,    *)
(* the set of lines pending in Cause.IP; devs, the set of devices with an  *)
(* interrupt pending on each pending device line (the line's bitmap word); *)
(* status, the status word of a device with a pending interrupt (an idle   *)
(* device shows READY); left, the value getTIMER returns.                  *)
(***************************************************************************)
DEVINTNUM == 5
DEVREGS == DEVINTNUM * DEVPERINT     \* the length of devreg[]

RECURSIVE SumBits(_)
SumBits(lines) ==
    IF lines = {} THEN 0
    ELSE LET l == CHOOSE x \in lines : TRUE
         IN  2 ^ (l - 3) + SumBits(lines \ {l})

(* ((s_cause >> 11) & 0x1F): one bit for each of the lines 3..7 *)
DeviceLineBits(hw) == SumBits(hw.ip \cap (3..7))

(* interrupt_dev[j]: the bitmap of line 3 + j *)
InterruptDevWord(hw, j) == IF (BASE_LINE + j) \in hw.ip THEN hw.devs ELSE {}

(* findInterruptDevice: the lowest device in the bitmap, else DEVICE_7 *)
LowestDevice(device_bit_map) ==
    IF \E d \in 0..6 : d \in device_bit_map
    THEN CHOOSE d \in 0..6 : d \in device_bit_map /\ \A e \in 0..(d - 1) : e \notin device_bit_map
    ELSE 7

findInterruptDevice(hw, interrupt_line_number) ==
    LowestDevice(InterruptDevWord(hw, interrupt_line_number - BASE_LINE))

InterruptLineNumber(hw) == DeviceLineBits(hw) + 3
DeviceIndex(hw) ==
    (InterruptLineNumber(hw) - BASE_LINE) * DEVPERINT
        + findInterruptDevice(hw, InterruptLineNumber(hw))

(* The words of devreg[i].  A device with a pending interrupt shows its    *)
(* completion status, an idle one READY; a terminal shows it in the        *)
(* transmitter's or the receiver's status word (hw.transm).                *)
DevPending(hw, i) ==
    (BASE_LINE + (i \div DEVPERINT)) \in hw.ip /\ (i % DEVPERINT) \in hw.devs
IsTerminal(i) == BASE_LINE + (i \div DEVPERINT) = LINE7
t_recv_status(hw, i) ==
    IF DevPending(hw, i) /\ ~(IsTerminal(i) /\ hw.transm) THEN hw.status ELSE READY
t_transm_status(hw, i) ==
    IF DevPending(hw, i) /\ IsTerminal(i) /\ hw.transm THEN hw.status ELSE READY

nonTimerInterruptHandler(S, sv, hw, interrupt_TOD) ==
    Let(InterruptLineNumber(hw), LAMBDA interrupt_line_number :
    Let(DeviceIndex(hw), LAMBDA device_index :
    Let(interrupt_line_number = LINE7 /\ t_transm_status(hw, device_index) # READY,
        LAMBDA transmit :
    LET sem_index == IF transmit THEN device_index + DEVPERINT ELSE device_index
    IN
    Let(IF transmit THEN t_transm_status(hw, device_index)
        ELSE t_recv_status(hw, device_index), LAMBDA status_code :
        IF S.ub THEN S
        \* interrupt_dev[] has DEVINTNUM words and devreg[] DEVREGS entries
        ELSE IF interrupt_line_number - BASE_LINE >= DEVINTNUM \/ device_index >= DEVREGS
        THEN Undefined(S)
        ELSE Let(removeBlocked(S, semaphoreDevicesAddr(sem_index)), LAMBDA R :
             LET pcb_to_unblock == R.ret
                 S1 == [R EXCEPT !.semaphoreDevices[sem_index] = @ + 1]
             IN
             Let(IF pcb_to_unblock # NULL
                 THEN IF S1.currentProcess = NULL
                      THEN Undefined(S1)                \* currentProcess->p_s.s_v0
                      ELSE Let(insertProcQ(
                                   [S1 EXCEPT !.p_s[S1.currentProcess].s_v0 = status_code],
                                   0, S1.currentProcess), LAMBDA B :
                               IF B.ub THEN B
                               ELSE [B EXCEPT !.softBlockedCount = @ - 1,
                                              !.p_time[pcb_to_unblock] =
                                                  @ + (B.tod - interrupt_TOD)])
                 ELSE S1, LAMBDA S2 :
                 IF R.ub \/ S2.ub THEN Undefined(S2)
                 ELSE IF S2.currentProcess # NULL
                 THEN Let(addPigeonCurrentProcessHelper(S2, sv), LAMBDA A :
                      Let(updateProcessTimeHelper([A EXCEPT !.plt = Word(hw.left)],
                                                  A.currentProcess, A.start_TOD,
                                                  interrupt_TOD), LAMBDA C :
                          switchContext(C, C.currentProcess)))
                 ELSE CallScheduler(S2)))))))

PLTInterruptHandler(S, sv) ==
    IF S.ub THEN S
    ELSE IF S.currentProcess = NULL THEN [S EXCEPT !.mode = "panic"]
    ELSE Let(addPigeonCurrentProcessHelper([S EXCEPT !.plt = Word(PLT_TIME_SLICE)], sv),
             LAMBDA B :
         Let(updateProcessTimeHelper(B, B.currentProcess, B.start_TOD, B.tod), LAMBDA C :
             CallScheduler(insertProcQ(C, 0, C.currentProcess))))

(* The loop of intervalTimerInterruptHandler; more rounds than PCBs means  *)
(* that it never ends.                                                     *)
RECURSIVE UnblockAll(_, _)
UnblockAll(S, n) ==
    IF S.ub THEN S
    ELSE Let(headBlocked(S, semaphoreDevicesAddr(CLOCK_INDEX)), LAMBDA h :
             IF h = NULL THEN S
             ELSE IF h = 0 \/ n > MAXPROC THEN Undefined(S)
             ELSE Let(removeBlocked(S, semaphoreDevicesAddr(CLOCK_INDEX)), LAMBDA R :
                  Let(insertProcQ(R, 0, R.ret), LAMBDA A :
                      IF A.ub THEN A
                      ELSE UnblockAll([A EXCEPT !.softBlockedCount = @ - 1], n + 1))))

intervalTimerInterruptHandler(S, sv, hw, interrupt_TOD) ==
    Let(UnblockAll([S EXCEPT !.plt = Word(INTERVAL_TIMER)], 0), LAMBDA A :
        LET B == [A EXCEPT !.semaphoreDevices[CLOCK_INDEX] = 0]
        IN  IF A.ub THEN A
            ELSE IF B.currentProcess # NULL
            THEN Let(addPigeonCurrentProcessHelper([B EXCEPT !.plt = Word(hw.left)], sv),
                     LAMBDA C :
                 Let(updateProcessTimeHelper(C, C.currentProcess,
                                             C.start_TOD, interrupt_TOD), LAMBDA D :
                     switchContext(D, D.currentProcess)))
            ELSE CallScheduler(B))

interruptTrapHandler(S, sv, hw) ==
    LET interrupt_TOD == S.tod
        pending == hw.ip \ {0}
    IN  IF 1 \in pending THEN PLTInterruptHandler(S, sv)
        ELSE IF 2 \in pending THEN intervalTimerInterruptHandler(S, sv, hw, interrupt_TOD)
        ELSE IF 3 \in pending THEN nonTimerInterruptHandler(S, sv, hw, interrupt_TOD)
        ELSE CallScheduler(S)

(***************************************************************************)
(* Bootstrap: main() up to its call of scheduler().  Static storage starts *)
(* as zero words.                                                          *)
(***************************************************************************)
RECURSIVE FreeAllPcbs(_, _)
FreeAllPcbs(S, i) ==             \* the loop of initPcbs
    IF i > MAXPROC THEN S ELSE FreeAllPcbs(freePcb(S, i), i + 1)

initPcbs(S) == FreeAllPcbs([S EXCEPT !.pcbFree_h = NULL], 1)

RECURSIVE FreeAllSemds(_, _)
FreeAllSemds(S, i) ==            \* the loop of initASL: for (i = 0; i <= MAXSEMDS; i++)
    IF i > MAXSEMDS + 1 THEN S ELSE FreeAllSemds(freeSemd(S, i), i + 1)

initASL(S) ==
    Let(allocSemd(FreeAllSemds([S EXCEPT !.semdFree_h = NULL], 1)), LAMBDA A :
    Let(allocSemd([A EXCEPT !.semd_h = A.ret, !.s_semAdd[A.ret] = 0,
                            !.s_procQ[A.ret] = NULL]), LAMBDA B :
        LET h == A.ret
            dummyTail == B.ret
        IN  [B EXCEPT !.s_semAdd[dummyTail] = MAXINT, !.s_procQ[dummyTail] = NULL,
                      !.s_next[h] = dummyTail, !.s_next[dummyTail] = NULL]))

Zeroed ==
    [pcbFree_h |-> 0, p_next |-> [p \in Pcbs |-> 0], p_prev |-> [p \in Pcbs |-> 0],
     p_prnt |-> [p \in Pcbs |-> 0], p_child |-> [p \in Pcbs |-> 0],
     p_lSib |-> [p \in Pcbs |-> 0], p_rSib |-> [p \in Pcbs |-> 0],
     p_s |-> [p \in Pcbs |-> ZeroState], p_time |-> [p \in Pcbs |-> 0],
     p_semAdd |-> [p \in Pcbs |-> 0], p_supportStruct |-> [p \in Pcbs |-> 0],
     semd_h |-> 0, semdFree_h |-> 0, s_next |-> [i \in Semds |-> 0],
     s_semAdd |-> [i \in Semds |-> 0], s_procQ |-> [i \in Semds |-> 0],
     processCount |-> 0, softBlockedCount |-> 0, readyQueue |-> 0,
     currentProcess |-> 0, semaphoreDevices |-> [i \in DevIdx |-> 0],
     start_TOD |-> 0, mem |-> [a \in UserSems |-> 0],
     sup_exceptState |-> [s \in {1} |-> [k \in {PGFAULTEXCEPT, GENERALEXCEPT} |-> ZeroState]],
     tod |-> 0, plt |-> Word(0), intervalTimer |-> 0, allocated |-> {}, readyOrder |-> <<>>,
     mode |-> "boot", ret |-> NULL, ub |-> FALSE]

main ==
    Let(initASL(initPcbs([Zeroed EXCEPT !.processCount = 0, !.softBlockedCount = 0,
                                        !.readyQueue = NULL, !.currentProcess = NULL,
                                        !.semaphoreDevices = [i \in DevIdx |-> 0]])),
        LAMBDA B :
    Let(allocPcb([B EXCEPT !.intervalTimer = PSECOND]), LAMBDA C :
        LET new_process == C.ret
        IN  IF new_process # NULL
            THEN Let(insertProcQ([C EXCEPT !.p_s[new_process] =
                                      [@ EXCEPT !.s_hdr = 3, !.s_reg = 1]],
                                 0, new_process), LAMBDA E :
                     CallScheduler([E EXCEPT !.processCount = @ + 1]))
            ELSE [C EXCEPT !.mode = "panic"]))

Boot ==
    /\ pcbFree_h = main.pcbFree_h
    /\ p_next = main.p_next
    /\ p_prev = main.p_prev
    /\ p_prnt = main.p_prnt
    /\ p_child = main.p_child
    /\ p_lSib = main.p_lSib
    /\ p_rSib = main.p_rSib
    /\ p_s = main.p_s
    /\ p_time = main.p_time
    /\ p_semAdd = main.p_semAdd
    /\ p_supportStruct = main.p_supportStruct
    /\ semd_h = main.semd_h
    /\ semdFree_h = main.semdFree_h
    /\ s_next = main.s_next
    /\ s_semAdd = main.s_semAdd
    /\ s_procQ = main.s_procQ
    /\ processCount = main.processCount
    /\ softBlockedCount = main.softBlockedCount
    /\ readyQueue = main.readyQueue
    /\ currentProcess = main.currentProcess
    /\ semaphoreDevices = main.semaphoreDevices
    /\ start_TOD = main.start_TOD
    /\ mem = main.mem
    /\ sup_exceptState = main.sup_exceptState
    /\ tod = main.tod
    /\ plt = main.plt
    /\ intervalTimer = main.intervalTimer
    /\ allocated = main.allocated
    /\ readyOrder = main.readyOrder
    /\ mode = main.mode
    /\ steps = 0

Init == Boot /\ budget = MaxSteps
InitDevices == Boot /\ budget = MaxDeviceSteps

(***************************************************************************)
(* The inputs of the model.                                                *)
(***************************************************************************)
TrapRegs == {2}                       \* register contents of a process at a trap
NewStates == {[s_hdr |-> 3, s_cause |-> 0, s_reg |-> 1, s_v0 |-> 0]}
SupPtrs == {1}                        \* a2 of SYS1
WaitIOArgs == {<<3, 0, 1>>, <<4, 7, 1>>}
IntLineSets == {{1}, {2}, {3}, {5}, {1, 3}, {2, 3}}
HwInputs ==
    [ip : IntLineSets, devs : {{0}, {7}}, status : {5}, transm : {FALSE}, left : {2500}]

(* The state the processor saves when the running process traps: the      *)
(* process is at an instruction (s_hdr 1), v0 holds a value of its own.    *)
Saved(cause, regs, kup, a0, a1, a2, a3) ==
    [s_hdr |-> 1, s_cause |-> cause, s_reg |-> regs, s_v0 |-> 7,
     kup |-> kup, a0 |-> a0, a1 |-> a1, a2 |-> a2, a3 |-> a3]

InRange(S) ==
    /\ S.processCount \in (0 - MaxDrift)..(MAXPROC + MaxDrift)
    /\ S.softBlockedCount \in (0 - MaxDrift)..(MAXPROC + MaxDrift)
    /\ \A a \in UserSems : S.mem[a] \in (0 - MAXPROC - MaxDrift)..MaxSem
    /\ \A i \in DevIdx : S.semaphoreDevices[i] \in (0 - MAXPROC - MaxDrift)..MaxSem

(* A step of the nucleus from trap to the next LDST, WAIT, HALT or PANIC,  *)
(* or to its call of scheduler().                                          *)
Step(S) ==
    /\ steps < budget
    /\ S.ub \/ InRange(S)
    /\ Becomes(S)
    /\ steps' = steps + 1
    /\ UNCHANGED budget

Syscall(a0, a1, a2, a3) ==
    \E r \in TrapRegs : Step(exceptionTrapHandler(Cur, Saved(8, r, FALSE, a0, a1, a2, a3)))

SYS1With(st, sup, r) ==
    /\ mode = "run"
    /\ Step(exceptionTrapHandler(Cur, Saved(8, r, FALSE, 1, st, sup, 0)))
SYS1 == \E st \in NewStates, sup \in SupPtrs, r \in TrapRegs : SYS1With(st, sup, r)
SYS2 == mode = "run" /\ Syscall(2, 0, 0, 0)
SYS3 == mode = "run" /\ \E a \in UserSems : Syscall(3, a, 0, 0)
SYS4 == mode = "run" /\ \E a \in UserSems : Syscall(4, a, 0, 0)
SYS5 == mode = "run" /\ \E io \in WaitIOArgs : Syscall(5, io[1], io[2], io[3])
SYS6 == mode = "run" /\ Syscall(6, 0, 0, 0)
SYS7 == mode = "run" /\ Syscall(7, 0, 0, 0)
SYS8 == mode = "run" /\ Syscall(8, 0, 0, 0)
SyscallOutOfRange == mode = "run" /\ \E a0 \in {0, 9} : Syscall(a0, 0, 0, 0)
SyscallUserMode ==
    /\ mode = "run"
    /\ \E a0 \in {2, 8}, r \in TrapRegs :
          Step(exceptionTrapHandler(Cur, Saved(8, r, TRUE, a0, 0, 0, 0)))
ProgramTrap ==
    /\ mode = "run"
    /\ \E r \in TrapRegs : Step(exceptionTrapHandler(Cur, Saved(4, r, FALSE, 0, 0, 0, 0)))
TlbTrap ==
    /\ mode = "run"
    /\ \E r \in TrapRegs : Step(exceptionTrapHandler(Cur, Saved(2, r, FALSE, 0, 0, 0, 0)))

(* The machine at an interrupt: line 2 is pending when the interval timer  *)
(* has run down to 0, and stays pending until the timer is loaded again.   *)
AtInterrupt(hw) == [Cur EXCEPT !.intervalTimer = IF 2 \in hw.ip THEN 0 ELSE @]

(* An interrupt is taken while a process runs or the processor waits. *)
InterruptWith(hw, r) ==
    /\ mode \in {"run", "wait"}
    /\ Step(interruptTrapHandler(AtInterrupt(hw), Saved(0, r, FALSE, 0, 0, 0, 0), hw))

Interrupt == \E hw \in HwInputs, r \in TrapRegs : InterruptWith(hw, r)

Scheduler == mode = "sched" /\ Step(scheduler(Cur))

Tick ==
    /\ mode \in {"run", "wait"}
    /\ tod < MaxTOD
    /\ steps < budget
    /\ tod' = tod + 1
    /\ steps' = steps + 1
    /\ UNCHANGED <<pcbFree_h, p_next, p_prev, p_prnt, p_child, p_lSib, p_rSib,
                   p_s, p_time, p_semAdd, p_supportStruct,
                   semd_h, semdFree_h, s_next, s_semAdd, s_procQ,
                   processCount, softBlockedCount, readyQueue, currentProcess,
                   semaphoreDevices, start_TOD, mem, sup_exceptState, plt,
                   intervalTimer, allocated, readyOrder, mode, budget>>

Next ==
    \/ SYS1 \/ SYS2 \/ SYS3 \/ SYS4 \/ SYS5 \/ SYS6 \/ SYS7 \/ SYS8
    \/ SyscallOutOfRange \/ SyscallUserMode \/ ProgramTrap \/ TlbTrap
    \/ Interrupt \/ Scheduler \/ Tick

Spec == Init /\ [][Next]_vars

(***************************************************************************)
(* Longer behaviours of fewer operations: processes are created and        *)
(* terminated, wait for one device and are interrupted by it.              *)
(***************************************************************************)
DeviceWait == <<4, 7, 1>>
DeviceHw == [ip |-> {3}, devs |-> {7}, status |-> 5, transm |-> FALSE, left |-> 2500]
SYS5Device == mode = "run" /\ Syscall(5, DeviceWait[1], DeviceWait[2], DeviceWait[3])
DeviceInterrupt ==
    /\ mode \in {"run", "wait"}
    /\ \E r \in TrapRegs :
          Step(interruptTrapHandler(AtInterrupt(DeviceHw),
                                    Saved(0, r, FALSE, 0, 0, 0, 0), DeviceHw))

NextDevices == SYS1 \/ SYS2 \/ SYS5Device \/ DeviceInterrupt \/ Scheduler

SpecDevices == InitDevices /\ [][NextDevices]_vars

(***************************************************************************)
(* Reading the data structures: the PCBs of a process queue from head to   *)
(* tail, the descriptors of the ASL from semd_h on, and where a PCB is.    *)
(***************************************************************************)
RECURSIVE QWalk(_, _, _, _)
QWalk(nxt, tail, cur, n) ==
    IF cur \notin Pcbs \/ n > MAXPROC THEN <<>>
    ELSE IF cur = tail THEN <<cur>>
    ELSE <<cur>> \o QWalk(nxt, tail, nxt[cur], n + 1)

ProcQ(nxt, tail) == IF tail \notin Pcbs THEN <<>> ELSE QWalk(nxt, tail, nxt[tail], 0)

RECURSIVE AslWalk(_, _, _)
AslWalk(snxt, cur, n) ==
    IF cur \notin Semds \/ n > MAXSEMDS + 1 THEN <<>>
    ELSE <<cur>> \o AslWalk(snxt, snxt[cur], n + 1)

Range(q) == {q[i] : i \in 1..Len(q)}

ReadySeq == ProcQ(p_next, readyQueue)
ActiveSemds == Range(AslWalk(s_next, semd_h, 0))
BlockedAt(p) == {s \in ActiveSemds : p \in Range(ProcQ(p_next, s_procQ[s]))}
BlockedOnDevice ==
    {p \in Pcbs : \E s \in BlockedAt(p) : IsDevAddr(s_semAdd[s])}
Places(p) ==
    (IF currentProcess = p THEN 1 ELSE 0)
        + (IF p \in Range(ReadySeq) THEN 1 ELSE 0)
        + Cardinality(BlockedAt(p))

(* The states in which the nucleus has handed the processor over, and    *)
(* those together with the states at a call of scheduler().               *)
StableModes == {"run", "wait", "halt", "panic"}
NucleusModes == StableModes \cup {"sched"}

(***************************************************************************)
(* C1: in every nucleus state every PCB that is allocated and not freed is *)
(* in exactly one place: it is currentProcess, or on the ready queue, or   *)
(* on exactly one wait queue of the ASL.                                   *)
(***************************************************************************)
C1_LivePcbInExactlyOnePlace ==
    mode \in StableModes => \A p \in allocated : Places(p) = 1

(***************************************************************************)
(* C2: a device interrupt handled for a device whose counter has a PCB W   *)
(* blocked on it removes W from the ASL, stores the device's status word   *)
(* in W's saved v0, appends W and nothing else to the tail of the ready    *)
(* queue and decrements softBlockedCount by one; the interrupted current   *)
(* process is not enqueued and keeps the v0 it trapped with.               *)
(***************************************************************************)
EntersDeviceHandler(hw) == hw.ip \cap {1, 2} = {} /\ 3 \in hw.ip
ServicedInRange(hw) ==
    InterruptLineNumber(hw) - BASE_LINE < DEVINTNUM /\ DeviceIndex(hw) < DEVREGS
Waiter(hw) == headBlocked(Cur, semaphoreDevicesAddr(DeviceIndex(hw)))

C2_DeviceInterruptReadiesWaiter ==
    [][\A hw \in HwInputs, r \in TrapRegs :
          (/\ InterruptWith(hw, r)
           /\ EntersDeviceHandler(hw) /\ ServicedInRange(hw)
           /\ Waiter(hw) \in Pcbs)
          => \A W \in Pcbs : W = Waiter(hw) =>
                /\ mode' # "undef"
                /\ BlockedAt(W)' = {}
                /\ p_s'[W].s_v0 = hw.status
                /\ ReadySeq' = Append(ReadySeq, W)
                /\ softBlockedCount' = softBlockedCount - 1
                /\ \A c \in Pcbs : c = currentProcess =>
                      /\ c \notin Range(ReadySeq')
                      /\ p_s'[c].s_v0 = 7]_vars

(***************************************************************************)
(* C3: with no timer interrupt pending and some device line 3..7 pending,  *)
(* the dispatcher enters the device handler, which services the lowest     *)
(* pending line L and the lowest pending device d of that line, at device  *)
(* index (L-3)*8+d: that device's counter is the one that is V'ed.         *)
(***************************************************************************)
C3_LowestLineLowestDevice ==
    [][\A hw \in HwInputs, r \in TrapRegs :
          (/\ InterruptWith(hw, r)
           /\ hw.ip \cap {1, 2} = {} /\ hw.ip \cap (3..7) # {})
          => \A L \in hw.ip \cap (3..7), d \in hw.devs :
                (/\ \A m \in hw.ip \cap (3..7) : L <= m
                 /\ \A e \in hw.devs : d <= e)
                => /\ mode' # "undef"
                   /\ semaphoreDevices'[(L - BASE_LINE) * DEVPERINT + d]
                          = semaphoreDevices[(L - BASE_LINE) * DEVPERINT + d] + 1]_vars

(***************************************************************************)
(* C4: softBlockedCount is the number of PCBs blocked on a wait queue of   *)
(* the ASL whose key is the address of one of the 49 device counters.      *)
(***************************************************************************)
C4_SoftBlockedCountsDeviceWaiters ==
    mode \in NucleusModes => softBlockedCount = Cardinality(BlockedOnDevice)

(***************************************************************************)
(* C5: processCount is the number of PCBs allocated and not yet returned   *)
(* to the pool, hence between 0 and MAXPROC.                               *)
(***************************************************************************)
C5_ProcessCountIsLivePcbs ==
    mode \in NucleusModes =>
        /\ processCount = Cardinality(allocated)
        /\ processCount \in 0..MAXPROC

(***************************************************************************)
(* C6: the scheduler run with an empty ready queue halts exactly when      *)
(* processCount is 0, idles with the PLT loaded with infinity exactly when *)
(* processCount > 0 and softBlockedCount > 0, and panics exactly when      *)
(* processCount > 0 and softBlockedCount is 0.                             *)
(***************************************************************************)
C6_EmptyQueueOutcomes ==
    [][(Scheduler /\ readyQueue = NULL) =>
          /\ mode' \in {"halt", "wait", "panic"}
          /\ mode' = "halt" <=> processCount = 0
          /\ mode' = "wait" <=> (processCount > 0 /\ softBlockedCount > 0)
          /\ mode' = "wait" => plt' = INF_TIME
          /\ mode' = "panic" <=> (processCount > 0 /\ softBlockedCount = 0)]_vars

(***************************************************************************)
(* C7: the scheduler run with a non-empty ready queue removes the head     *)
(* PCB, makes it currentProcess, loads the PLT with the 5 ms slice and     *)
(* loads that PCB's state; the PCB it dispatches is the one appended to    *)
(* the ready queue the longest ago (FIFO).                                 *)
(***************************************************************************)
C7_DispatchHeadFifo ==
    [][(Scheduler /\ readyQueue # NULL) =>
          /\ mode' = "run"
          /\ ReadySeq # <<>> /\ readyOrder # <<>>
          /\ currentProcess' = Head(ReadySeq)
          /\ currentProcess' = Head(readyOrder)
          /\ ReadySeq' = Tail(ReadySeq)
          /\ plt' = Word(PLT_TIME_SLICE)
          /\ start_TOD' = tod
          /\ p_s' = p_s]_vars

(***************************************************************************)
(* C8: a SYS1 in kernel mode with a free PCB allocates one PCB, gives it   *)
(* the state at a1, the support pointer a2, cpu time 0 and no semaphore,   *)
(* makes it a child of the caller and the tail of the ready queue, adds 1  *)
(* to processCount, puts 0 in the caller's v0 and resumes the caller.      *)
(***************************************************************************)
RECURSIVE SibWalk(_, _)
SibWalk(c, n) ==
    IF c \notin Pcbs \/ n > MAXPROC THEN {} ELSE {c} \cup SibWalk(p_rSib[c], n + 1)
Children(p) == SibWalk(p_child[p], 0)

C8_CreateProcess ==
    [][\A st \in NewStates, sup \in SupPtrs, r \in TrapRegs :
          (SYS1With(st, sup, r) /\ pcbFree_h # NULL)
          => \A n \in Pcbs, c \in Pcbs : (n = pcbFree_h /\ c = currentProcess) =>
                /\ mode' = "run" /\ currentProcess' = c
                /\ n \notin allocated /\ allocated' = allocated \cup {n}
                /\ p_s'[n] = moveStateHelper(st)
                /\ p_supportStruct'[n] = sup
                /\ p_time'[n] = 0 /\ p_semAdd'[n] = NULL
                /\ p_prnt'[n] = c /\ n \in Children(c)'
                /\ ReadySeq' = Append(ReadySeq, n)
                /\ processCount' = processCount + 1
                /\ p_s'[c] = [s_hdr |-> 2, s_cause |-> 8, s_reg |-> r, s_v0 |-> 0]]_vars

(***************************************************************************)
(* C9: a SYS1 while all MAXPROC PCBs are allocated puts -1 in the caller's *)
(* v0 and changes nothing else: processCount, the ready queue, the ASL and *)
(* the process tree stay as they are, no PCB is freed, the caller resumes. *)
(***************************************************************************)
AslView ==
    LET a == AslWalk(s_next, semd_h, 0)
    IN  [i \in 1..Len(a) |-> <<s_semAdd[a[i]], ProcQ(p_next, s_procQ[a[i]])>>]

C9_CreateProcessPoolEmpty ==
    [][\A st \in NewStates, sup \in SupPtrs, r \in TrapRegs :
          (SYS1With(st, sup, r) /\ allocated = Pcbs)
          => \A c \in Pcbs : c = currentProcess =>
                /\ mode' = "run" /\ currentProcess' = c
                /\ p_s'[c] = [s_hdr |-> 2, s_cause |-> 8, s_reg |-> r, s_v0 |-> -1]
                /\ processCount' = processCount
                /\ ReadySeq' = ReadySeq /\ readyQueue' = readyQueue
                /\ AslView' = AslView
                /\ UNCHANGED <<p_prnt, p_child, p_lSib, p_rSib>>
                /\ UNCHANGED <<allocated, pcbFree_h, softBlockedCount>>]_vars

(* A process with a support structure resumed from a SYS1 that found the  *)
(* pool empty.                                                             *)
C9_Refused ==
    /\ mode = "run" /\ currentProcess \in Pcbs
    /\ allocated = Pcbs /\ pcbFree_h = NULL /\ processCount = MAXPROC
    /\ p_supportStruct[currentProcess] # NULL
    /\ p_s[currentProcess] = [s_hdr |-> 2, s_cause |-> 8, s_reg |-> 2, s_v0 |-> ERROR_CONST]

(***************************************************************************)
(* C10: a SYS2 by a process with n descendants returns exactly those n+1   *)
(* PCBs to the pool, takes n+1 off processCount, leaves every other PCB    *)
(* allocated, and calls the scheduler with currentProcess cleared.         *)
(***************************************************************************)
RECURSIVE DescWalk(_, _)
DescWalk(ps, n) ==
    IF n = 0 THEN ps ELSE DescWalk(ps \cup UNION {Children(q) : q \in ps}, n - 1)
Descendants(p) == DescWalk({p}, MAXPROC) \ {p}

RECURSIVE FreeWalk(_, _)
FreeWalk(p, n) ==
    IF p \notin Pcbs \/ n > MAXPROC THEN {} ELSE {p} \cup FreeWalk(p_next[p], n + 1)
FreeList == FreeWalk(pcbFree_h, 0)

C10_TerminateSubtree ==
    [][(SYS2 /\ currentProcess \in Pcbs) =>
          \A c \in Pcbs, D \in SUBSET Pcbs :
             (c = currentProcess /\ D = Descendants(c) \cup {c}) =>
                /\ mode' = "sched" /\ currentProcess' = NULL
                /\ D \subseteq allocated /\ allocated' = allocated \ D
                /\ FreeList' = FreeList \cup D
                /\ processCount' = processCount - Cardinality(D)]_vars

(***************************************************************************)
(* C11: a SYS2 takes every descendant of the caller that is blocked on the *)
(* ASL off its wait queue; for each one blocked on a device counter (the   *)
(* pseudo-clock counter included) softBlockedCount goes down by one and    *)
(* the counter keeps its value; for each one blocked on another semaphore  *)
(* that semaphore goes up by one and softBlockedCount is not touched.      *)
(***************************************************************************)
C11_TerminateBlockedDescendant ==
    [][LET KeysOf(p) == {s_semAdd[s] : s \in BlockedAt(p)}
           Blocked == {d \in Descendants(currentProcess) : p_semAdd[d] \in KeysOf(d)}
           OnDevice == {d \in Blocked : IsDevAddr(p_semAdd[d])}
       IN  (SYS2 /\ currentProcess \in Pcbs /\ Blocked # {}) =>
              /\ mode' = "sched"
              /\ \A d \in Blocked : BlockedAt(d)' = {}
              /\ softBlockedCount' = softBlockedCount - Cardinality(OnDevice)
              /\ semaphoreDevices' = semaphoreDevices
              /\ \A a \in UserSems :
                    mem'[a] = mem[a] + Cardinality({d \in Blocked : p_semAdd[d] = a})]_vars

(***************************************************************************)
(* C12: a SYS3 on a semaphore takes 1 off its value.  If the new value is  *)
(* negative the caller is appended to the wait queue of that key on the    *)
(* ASL with p_semAdd set to the key, is no longer currentProcess, and the  *)
(* scheduler is called; if it is not negative the caller stays             *)
(* currentProcess and the ASL and the ready queue are as before.           *)
(***************************************************************************)
WaitQ(a) ==
    LET v == AslView
    IN  IF \E i \in 1..Len(v) : v[i][1] = a
        THEN v[CHOOSE i \in 1..Len(v) : v[i][1] = a][2]
        ELSE <<>>

C12_Passeren ==
    [][\A a \in UserSems, c \in Pcbs :
          (mode = "run" /\ Syscall(3, a, 0, 0) /\ c = currentProcess) =>
             /\ mem'[a] = mem[a] - 1
             /\ mem[a] - 1 < 0 =>
                   /\ mode' = "sched" /\ currentProcess' = NULL
                   /\ p_semAdd'[c] = a
                   /\ WaitQ(a)' = Append(WaitQ(a), c)
             /\ mem[a] - 1 >= 0 =>
                   /\ mode' = "run" /\ currentProcess' = c
                   /\ AslView' = AslView
                   /\ ReadySeq' = ReadySeq /\ readyQueue' = readyQueue]_vars

(***************************************************************************)
(* C13: a SYS4 on a semaphore adds 1 to its value.  If the new value is    *)
(* <= 0 exactly one PCB is released: the head of the wait queue of that    *)
(* key, the waiter whose P is the oldest; its p_semAdd becomes NULL and it *)
(* is appended to the tail of the ready queue within the same handler      *)
(* run.  If the new value is > 0 no PCB is released.  In both cases the    *)
(* caller stays currentProcess.                                            *)
(***************************************************************************)
C13_Verhogen ==
    [][\A a \in UserSems, c \in Pcbs :
          (mode = "run" /\ Syscall(4, a, 0, 0) /\ c = currentProcess) =>
             /\ mem'[a] = mem[a] + 1
             /\ mode' = "run" /\ currentProcess' = c
             /\ mem[a] + 1 <= 0 =>
                   /\ WaitQ(a) # <<>>
                   /\ \A w \in Pcbs : w = Head(WaitQ(a)) =>
                         /\ WaitQ(a)' = Tail(WaitQ(a))
                         /\ BlockedAt(w)' = {}
                         /\ p_semAdd'[w] = NULL
                         /\ ReadySeq' = Append(ReadySeq, w)
             /\ mem[a] + 1 > 0 =>
                   /\ AslView' = AslView
                   /\ ReadySeq' = ReadySeq /\ readyQueue' = readyQueue]_vars

(***************************************************************************)
(* C14: for a line in 3..7 and a device in 0..7, SYS5(line, device, read)  *)
(* works on device counter (line-3)*8+device, plus 8 exactly when the line *)
(* is 7 and the read flag is not TRUE; the flag makes no difference on the *)
(* lines 3..6, the index is in 0..47, and it is the index of the counter   *)
(* that is incremented when the completion interrupt of that sub-device    *)
(* (the transmitter of a terminal for a write) is handled.                 *)
(***************************************************************************)
C14_WaitIndexIsInterruptIndex ==
    [][LET Slot(l, d, write) == (l - 3) * 8 + d + (IF l = 7 /\ write THEN 8 ELSE 0)
       IN  /\ \A l \in 3..7, d \in 0..7, rd \in {0, 1} :
                 /\ WaitForIOIndex(l, d, rd) = Slot(l, d, rd # 1)
                 /\ WaitForIOIndex(l, d, rd) \in 0..47
                 /\ l # 7 => WaitForIOIndex(l, d, 0) = WaitForIOIndex(l, d, 1)
           /\ \A io \in WaitIOArgs :
                 (mode = "run" /\ Syscall(5, io[1], io[2], io[3]) /\ mode' # "undef")
                 => semaphoreDevices'[Slot(io[1], io[2], io[3] # 1)]
                        = semaphoreDevices[Slot(io[1], io[2], io[3] # 1)] - 1
           /\ \A hw \in HwInputs, r \in TrapRegs, l \in 3..7, d \in 0..7 :
                 (/\ InterruptWith(hw, r) /\ hw.ip \cap {1, 2} = {}
                  /\ hw.ip \cap (3..7) = {l} /\ hw.devs = {d})
                 => semaphoreDevices'[Slot(l, d, hw.transm)]
                        = semaphoreDevices[Slot(l, d, hw.transm)] + 1]_vars

(***************************************************************************)
(* C15: every SYS5, whatever the value of the counter of its device at the *)
(* call, blocks the caller: the counter goes down by 1, softBlockedCount   *)
(* goes up by exactly 1, the caller is appended to the wait queue of that  *)
(* counter on the ASL and is no longer currentProcess, and the scheduler   *)
(* is called.                                                              *)
(***************************************************************************)
C15_WaitForIOAlwaysBlocks ==
    [][\A io \in WaitIOArgs, c \in Pcbs :
          (mode = "run" /\ Syscall(5, io[1], io[2], io[3]) /\ c = currentProcess) =>
             LET i == WaitForIOIndex(io[1], io[2], io[3])
             IN  /\ semaphoreDevices'[i] = semaphoreDevices[i] - 1
                 /\ softBlockedCount' = softBlockedCount + 1
                 /\ WaitQ(semaphoreDevicesAddr(i))'
                        = Append(WaitQ(semaphoreDevicesAddr(i)), c)
                 /\ p_semAdd'[c] = semaphoreDevicesAddr(i)
                 /\ currentProcess' = NULL
                 /\ mode' = "sched"]_vars

(***************************************************************************)
(* C16: an interval-timer interrupt handled while n >= 0 PCBs wait on the  *)
(* pseudo-clock takes all n off the ASL and appends them to the ready      *)
(* queue in the order in which they blocked; softBlockedCount goes down by *)
(* exactly n, the pseudo-clock counter ends at 0 and no descriptor of the  *)
(* pseudo-clock key is left on the ASL.                                    *)
(***************************************************************************)
C16_IntervalTimerReleasesAll ==
    [][\A hw \in HwInputs, r \in TrapRegs :
          (InterruptWith(hw, r) /\ 1 \notin hw.ip /\ 2 \in hw.ip)
          => /\ mode' \in {"run", "sched"}
             /\ ReadySeq' = ReadySeq \o WaitQ(semaphoreDevicesAddr(CLOCK_INDEX))
             /\ \A p \in Range(WaitQ(semaphoreDevicesAddr(CLOCK_INDEX))) :
                   BlockedAt(p)' = {} /\ p_semAdd'[p] = NULL
             /\ softBlockedCount' =
                   softBlockedCount - Len(WaitQ(semaphoreDevicesAddr(CLOCK_INDEX)))
             /\ semaphoreDevices'[CLOCK_INDEX] = 0
             /\ \A s \in ActiveSemds' :
                   s_semAdd'[s] # semaphoreDevicesAddr(CLOCK_INDEX)]_vars

(***************************************************************************)
(* C17: the pseudo-clock counter is 0 or negative in every nucleus state,  *)
(* and so every SYS7 blocks its caller on the pseudo-clock key: the caller *)
(* is appended to the wait queue of that key, is no longer currentProcess, *)
(* the scheduler is called, and softBlockedCount goes up by exactly 1.     *)
(***************************************************************************)
C17_ClockCounterNeverPositive ==
    [][/\ (mode \in NucleusModes => semaphoreDevices[CLOCK_INDEX] <= 0)
       /\ (mode' \in NucleusModes => semaphoreDevices'[CLOCK_INDEX] <= 0)
       /\ \A c \in Pcbs :
             (mode = "run" /\ Syscall(7, 0, 0, 0) /\ c = currentProcess) =>
                /\ semaphoreDevices'[CLOCK_INDEX] = semaphoreDevices[CLOCK_INDEX] - 1
                /\ softBlockedCount' = softBlockedCount + 1
                /\ WaitQ(semaphoreDevicesAddr(CLOCK_INDEX))'
                       = Append(WaitQ(semaphoreDevicesAddr(CLOCK_INDEX)), c)
                /\ p_semAdd'[c] = semaphoreDevicesAddr(CLOCK_INDEX)
                /\ currentProcess' = NULL
                /\ mode' = "sched"]_vars

(***************************************************************************)
(* C18: every handling of an interval-timer interrupt loads the interval   *)
(* timer with 100 ms again, which acknowledges the interrupt of line 2;    *)
(* the handler does not leave the interval timer as it found it.           *)
(***************************************************************************)
C18_IntervalTimerReloaded ==
    [][\A hw \in HwInputs, r \in TrapRegs :
          (InterruptWith(hw, r) /\ 1 \notin hw.ip /\ 2 \in hw.ip /\ mode' # "undef")
          => /\ intervalTimer' = PSECOND
             /\ intervalTimer' # AtInterrupt(hw).intervalTimer]_vars

(***************************************************************************)
(* C19: a PLT interrupt handled while a process is current copies the      *)
(* saved exception state into that process's PCB, appends the process to   *)
(* the tail of the ready queue and calls the scheduler; the scheduler      *)
(* dispatches the head of the queue, so the preempted process runs again   *)
(* only after every PCB that was on the ready queue before it, and at once *)
(* only when the ready queue was empty.                                    *)
(***************************************************************************)
C19_PltPreemptsToTail ==
    [][/\ \A hw \in HwInputs, r \in TrapRegs, c \in Pcbs :
             (InterruptWith(hw, r) /\ 1 \in hw.ip /\ c = currentProcess) =>
                /\ mode' = "sched"
                /\ p_s'[c] = [s_hdr |-> 1, s_cause |-> 0, s_reg |-> r, s_v0 |-> 7]
                /\ ReadySeq' = Append(ReadySeq, c)
                /\ (Head(ReadySeq') = c) <=> (ReadySeq = <<>>)
       /\ (Scheduler /\ ReadySeq # <<>>) => currentProcess' = Head(ReadySeq)]_vars

(***************************************************************************)
(* C20: a PLT interrupt handled while there is no current process enters   *)
(* the scheduler at once; the handler changes neither the ready queue nor  *)
(* the ASL nor processCount nor softBlockedCount.                          *)
(***************************************************************************)
C20_PltWhileIdle ==
    [][\A hw \in HwInputs, r \in TrapRegs :
          (InterruptWith(hw, r) /\ 1 \in hw.ip /\ currentProcess = NULL) =>
             /\ mode' = "sched"
             /\ ReadySeq' = ReadySeq /\ readyQueue' = readyQueue
             /\ AslView' = AslView
             /\ processCount' = processCount
             /\ softBlockedCount' = softBlockedCount]_vars

(***************************************************************************)
(* C21: each entry to the interrupt dispatcher handles one source, chosen  *)
(* by strict priority over the pending lines, line 0 ignored: the PLT      *)
(* handler if line 1 is pending, whatever else is; otherwise the           *)
(* interval-timer handler if line 2 is pending; otherwise the device       *)
(* handler if any of the lines 3..7 is pending; otherwise the scheduler.   *)
(***************************************************************************)
C21_InterruptPriority ==
    [][\A hw \in HwInputs, r \in TrapRegs :
          InterruptWith(hw, r) =>
             IF 1 \in hw.ip
             THEN Becomes(PLTInterruptHandler(AtInterrupt(hw),
                                              Saved(0, r, FALSE, 0, 0, 0, 0)))
             ELSE IF 2 \in hw.ip
             THEN Becomes(intervalTimerInterruptHandler(
                              AtInterrupt(hw), Saved(0, r, FALSE, 0, 0, 0, 0), hw, tod))
             ELSE IF hw.ip \cap (3..7) # {}
             THEN Becomes(nonTimerInterruptHandler(
                              AtInterrupt(hw), Saved(0, r, FALSE, 0, 0, 0, 0), hw, tod))
             ELSE Becomes(CallScheduler(AtInterrupt(hw)))]_vars

(***************************************************************************)
(* The two outcomes of passUpOrDie for the current process c.  Passed up:  *)
(* the state st is in the slot `kind` of c's support structure, c is still *)
(* current and running, and nothing else of the nucleus has changed.  Died:*)
(* c and its descendants are back in the pool, processCount has gone down  *)
(* by their number, no PCB was allocated, no other PCB has changed its     *)
(* place, and the scheduler is called with currentProcess cleared.         *)
(***************************************************************************)
PassedUp(c, kind, st) ==
    /\ mode' = "run" /\ currentProcess' = c
    /\ p_supportStruct[c] \in DOMAIN sup_exceptState
    /\ sup_exceptState'[p_supportStruct[c]][kind] = st
    /\ processCount' = processCount /\ softBlockedCount' = softBlockedCount
    /\ allocated' = allocated
    /\ ReadySeq' = ReadySeq /\ readyQueue' = readyQueue
    /\ AslView' = AslView

Died(c) ==
    /\ mode' = "sched" /\ currentProcess' = NULL
    /\ Descendants(c) \cup {c} \subseteq allocated
    /\ allocated' = allocated \ (Descendants(c) \cup {c})
    /\ FreeList' = FreeList \cup Descendants(c) \cup {c}
    /\ processCount' = processCount - Cardinality(Descendants(c) \cup {c})
    /\ \A p \in Pcbs \ (Descendants(c) \cup {c}) :
          /\ (p \in Range(ReadySeq')) <=> (p \in Range(ReadySeq))
          /\ BlockedAt(p)' = BlockedAt(p)
    /\ \A p \in Descendants(c) \cup {c} :
          p \notin Range(ReadySeq') /\ BlockedAt(p)' = {}

(***************************************************************************)
(* C22: a SYSCALL trapped from user mode, whatever a0 is, 1..8 included,   *)
(* performs no service: the saved cause code becomes 10 and the trap is a  *)
(* GENERAL pass-up-or-die.  With a support structure the state is passed   *)
(* up; with none the caller and its descendants are terminated and the     *)
(* scheduler is called.  No process is created, blocked or unblocked.      *)
(***************************************************************************)
C22_UserModeSyscall ==
    [][\A a0 \in {2, 8}, r \in TrapRegs, c \in Pcbs :
          (/\ mode = "run" /\ c = currentProcess
           /\ Step(exceptionTrapHandler(Cur, Saved(8, r, TRUE, a0, 0, 0, 0))))
          => IF p_supportStruct[c] # NULL
             THEN PassedUp(c, GENERALEXCEPT,
                           [s_hdr |-> 2, s_cause |-> EXC_RESERVED_INSTRUCTION,
                            s_reg |-> r, s_v0 |-> 7])
             ELSE Died(c)]_vars

(***************************************************************************)
(* C23: on a TLB trap (cause 1..3), a program trap (cause 4..7, 9..12) or  *)
(* a SYSCALL with a0 outside 1..8, a current process with a support        *)
(* structure has the saved exception state copied into the slot of the     *)
(* matching kind (PGFAULTEXCEPT for a TLB trap, GENERALEXCEPT otherwise)   *)
(* and goes on, alive and current, with processCount, the ready queue and  *)
(* the ASL unchanged; one without is terminated with all its descendants   *)
(* and the scheduler is called.                                            *)
(***************************************************************************)
C23_PassUpOrDie ==
    [][\A r \in TrapRegs, c \in Pcbs :
          /\ \A cause \in {2, 4} :
                (/\ mode = "run" /\ c = currentProcess
                 /\ Step(exceptionTrapHandler(Cur, Saved(cause, r, FALSE, 0, 0, 0, 0))))
                => IF p_supportStruct[c] # NULL
                   THEN PassedUp(c, IF cause = 2 THEN PGFAULTEXCEPT ELSE GENERALEXCEPT,
                                 [s_hdr |-> 1, s_cause |-> cause, s_reg |-> r, s_v0 |-> 7])
                   ELSE Died(c)
          /\ \A a0 \in {0, 9} :
                (/\ mode = "run" /\ c = currentProcess
                 /\ Step(exceptionTrapHandler(Cur, Saved(8, r, FALSE, a0, 0, 0, 0))))
                => IF p_supportStruct[c] # NULL
                   THEN PassedUp(c, GENERALEXCEPT,
                                 [s_hdr |-> 2, s_cause |-> 8, s_reg |-> r, s_v0 |-> 7])
                   ELSE Died(c)]_vars


(***************************************************************************)
(* The phase-1 libraries called directly.  A test program calls initPcbs() *)
(* and initASL() and then allocPcb, freePcb, insertBlocked, removeBlocked, *)
(* outBlocked and headBlocked, in any order: it inserts a PCB it got from  *)
(* allocPcb and that is on no queue, and frees such a PCB.  It also uses a  *)
(* PCB as the nucleus does, writing a processor state, a CPU time and a    *)
(* support pointer into it.  Keys are addresses of int variables: the      *)
(* variables of a program are in RAM, 64 is an address below MAXINT.       *)
(***************************************************************************)
MaxLibSteps == 7
LibKeys == {64, RAMSTART + 64, RAMSTART + 68}
UsedState == [s_hdr |-> 3, s_cause |-> 8, s_reg |-> 1, s_v0 |-> 7]

StartsAs(S) ==
    /\ pcbFree_h = S.pcbFree_h
    /\ p_next = S.p_next
    /\ p_prev = S.p_prev
    /\ p_prnt = S.p_prnt
    /\ p_child = S.p_child
    /\ p_lSib = S.p_lSib
    /\ p_rSib = S.p_rSib
    /\ p_s = S.p_s
    /\ p_time = S.p_time
    /\ p_semAdd = S.p_semAdd
    /\ p_supportStruct = S.p_supportStruct
    /\ semd_h = S.semd_h
    /\ semdFree_h = S.semdFree_h
    /\ s_next = S.s_next
    /\ s_semAdd = S.s_semAdd
    /\ s_procQ = S.s_procQ
    /\ processCount = S.processCount
    /\ softBlockedCount = S.softBlockedCount
    /\ readyQueue = S.readyQueue
    /\ currentProcess = S.currentProcess
    /\ semaphoreDevices = S.semaphoreDevices
    /\ start_TOD = S.start_TOD
    /\ mem = S.mem
    /\ sup_exceptState = S.sup_exceptState
    /\ tod = S.tod
    /\ plt = S.plt
    /\ intervalTimer = S.intervalTimer
    /\ allocated = S.allocated
    /\ readyOrder = S.readyOrder
    /\ mode = S.mode
    /\ steps = 0

LibStart == initASL(initPcbs([Zeroed EXCEPT !.mode = "lib"]))
InitLib == StartsAs(LibStart) /\ budget = MaxLibSteps

Held(p) == p \in allocated /\ BlockedAt(p) = {}

CallAllocPcb == mode = "lib" /\ Step(allocPcb(Cur))
CallFreePcb(p) == mode = "lib" /\ Held(p) /\ Step(freePcb(Cur, p))
UsePcb(p) ==
    /\ mode = "lib"
    /\ Held(p)
    /\ p_s[p] # UsedState
    /\ Step([Cur EXCEPT !.p_s[p] = UsedState, !.p_time[p] = 1,
                        !.p_supportStruct[p] = 1])
CallInsertBlocked(k, p) == mode = "lib" /\ Held(p) /\ Step(insertBlocked(Cur, k, p))
CallRemoveBlocked(k) == mode = "lib" /\ Step(removeBlocked(Cur, k))
CallOutBlocked(p) == mode = "lib" /\ p \in allocated /\ Step(outBlocked(Cur, p))
CallHeadBlocked(k) ==
    /\ mode = "lib"
    /\ Step(IF headBlocked(Cur, k) = 0 THEN Undefined(Cur) ELSE Cur)

NextLib ==
    \/ CallAllocPcb
    \/ \E p \in Pcbs : CallFreePcb(p)
    \/ \E p \in Pcbs : UsePcb(p)
    \/ \E k \in LibKeys, p \in Pcbs : CallInsertBlocked(k, p)
    \/ \E k \in LibKeys : CallRemoveBlocked(k)
    \/ \E p \in Pcbs : CallOutBlocked(p)
    \/ \E k \in LibKeys : CallHeadBlocked(k)

SpecLib == InitLib /\ [][NextLib]_vars


(***************************************************************************)
(* C24: after initASL and any sequence of insertBlocked, removeBlocked,    *)
(* outBlocked and headBlocked calls the active list is strictly increasing *)
(* in key along s_next, its first entry is the sentinel with key 0, its    *)
(* last entry is the sentinel with key MAXINT, and neither sentinel is on  *)
(* the free list.                                                          *)
(***************************************************************************)
C24_AslSortedBetweenSentinels ==
    mode = "lib" =>
        LET asl == AslWalk(s_next, semd_h, 0)
            dummyHead == LibStart.semd_h
            dummyTail == LibStart.s_next[LibStart.semd_h]
        IN  /\ Len(asl) >= 2
            /\ \A i \in 1..(Len(asl) - 1) :
                  ULess(Unsigned(s_semAdd[asl[i]]), Unsigned(s_semAdd[asl[i + 1]]))
            /\ asl[1] = dummyHead /\ s_semAdd[dummyHead] = 0
            /\ asl[Len(asl)] = dummyTail /\ s_semAdd[dummyTail] = MAXINT
            /\ {dummyHead, dummyTail} \cap Range(AslWalk(s_next, semdFree_h, 0)) = {}


(***************************************************************************)
(* C25: the wait queue of a key is what the calls made it: insertBlocked   *)
(* appends the PCB, removeBlocked takes the head off, outBlocked takes its *)
(* PCB out.  The active list has a non-sentinel entry for a key exactly    *)
(* when that queue is not empty, so no non-sentinel entry has an empty     *)
(* queue; an entry leaves the list exactly in a removeBlocked or           *)
(* outBlocked call that removes the last waiter of its key, and it is then *)
(* on the free list.                                                       *)
(***************************************************************************)
C25_EntryIffWaiters ==
    [][LET dummies == {LibStart.semd_h, LibStart.s_next[LibStart.semd_h]}
           Entry(k) == {s \in ActiveSemds \ dummies : s_semAdd[s] = k}
           Tidy == \A s \in ActiveSemds \ dummies :
                      /\ s_semAdd[s] \in LibKeys
                      /\ Entry(s_semAdd[s]) = {s}
                      /\ ProcQ(p_next, s_procQ[s]) # <<>>
       IN  mode = "lib" =>
             /\ Tidy /\ Tidy'
             /\ \A k \in LibKeys :
                   /\ Entry(k) # {} <=> WaitQ(k) # <<>>
                   /\ \A p \in Pcbs : CallInsertBlocked(k, p) =>
                         WaitQ(k)' = Append(WaitQ(k), p)
                   /\ (CallRemoveBlocked(k) /\ WaitQ(k) # <<>>) =>
                         WaitQ(k)' = Tail(WaitQ(k))
                   /\ \A p \in Range(WaitQ(k)) : CallOutBlocked(p) =>
                         WaitQ(k)' = SelectSeq(WaitQ(k), LAMBDA q : q # p)
                   /\ (Entry(k) # {} /\ Entry(k)' = {}) <=>
                         /\ Len(WaitQ(k)) = 1
                         /\ CallRemoveBlocked(k) \/ CallOutBlocked(WaitQ(k)[1])
                   /\ (Entry(k) # {} /\ Entry(k)' = {}) =>
                         Entry(k) \subseteq Range(AslWalk(s_next, semdFree_h, 0))'
                   /\ (Entry(k) = {} /\ Entry(k)' # {}) =>
                         \E p \in Pcbs : CallInsertBlocked(k, p)
                   /\ (\E p \in Pcbs : CallInsertBlocked(k, p)) => Entry(k)' # {}
                   /\ (WaitQ(k)' # WaitQ(k)) =>
                         \/ \E p \in Pcbs : CallInsertBlocked(k, p)
                         \/ CallRemoveBlocked(k)
                         \/ \E p \in Range(WaitQ(k)) : CallOutBlocked(p)]_vars

(* An outBlocked call has removed the only waiter of a key while another   *)
(* key keeps its entry with two waiters.                                   *)
C25_LastWaiterLeft ==
    /\ mode = "lib"
    /\ \E p \in allocated :
          /\ p_semAdd[p] \in LibKeys
          /\ BlockedAt(p) = {}
          /\ WaitQ(p_semAdd[p]) = <<>>
    /\ \E k \in LibKeys : Len(WaitQ(k)) = 2


(***************************************************************************)
(* C26: when insertBlocked(k, p) has put p on a key k that had no waiters, *)
(* a removeBlocked(k) that follows returns p and leaves p_semAdd of p      *)
(* NULL, and an outBlocked(p) that follows returns p and leaves p_semAdd   *)
(* of p equal to k; after either call the active list has the keys and     *)
(* queues, and the free list the descriptors, that they had before the     *)
(* insertion.                                                              *)
(***************************************************************************)
C26_InsertThenRemove ==
    [][LET ViewOf(S) ==
               LET a == AslWalk(S.s_next, S.semd_h, 0)
               IN  [i \in 1..Len(a) |->
                       <<S.s_semAdd[a[i]], ProcQ(S.p_next, S.s_procQ[a[i]])>>]
           FreeOf(S) == Range(AslWalk(S.s_next, S.semdFree_h, 0))
           Back(S) == /\ ~S.ub
                      /\ ViewOf(S) = ViewOf(Cur)
                      /\ FreeOf(S) = FreeOf(Cur)
       IN  \A k \in LibKeys, p \in Pcbs :
              (CallInsertBlocked(k, p) /\ WaitQ(k) = <<>>) =>
                 /\ insertBlocked(Cur, k, p).ret = 0
                 /\ removeBlocked(Cur', k).ret = p
                 /\ removeBlocked(Cur', k).p_semAdd[p] = NULL
                 /\ Back(removeBlocked(Cur', k))
                 /\ outBlocked(Cur', p).ret = p
                 /\ outBlocked(Cur', p).p_semAdd[p] = k
                 /\ Back(outBlocked(Cur', p))]_vars

(* A key has just got its only waiter, next to another key with a waiter. *)
C26_OnlyWaiter ==
    /\ mode = "lib"
    /\ \E k \in LibKeys, p \in Pcbs :
          /\ WaitQ(k) = <<p>>
          /\ p_semAdd[p] = k
          /\ \E j \in LibKeys \ {k} : WaitQ(j) # <<>>


(***************************************************************************)
(* A test that fills the ASL first: it allocates every PCB and inserts     *)
(* the i-th one on the key &sem[i], which makes MAXPROC keys active, and   *)
(* then goes on with the calls above; while every key of sem[] is active   *)
(* it also inserts one of its PCBs on the unused key &onesem.              *)
(***************************************************************************)
MaxFullSteps == 3
sem(i) == RAMSTART + 64 + 4 * i
onesem == RAMSTART + 64 + 4 * MAXPROC
FullKeys == {sem(i) : i \in 0..(MAXPROC - 1)} \cup {onesem}

RECURSIVE InsertEach(_, _)
InsertEach(S, i) ==
    IF i >= MAXPROC THEN S
    ELSE Let(allocPcb(S), LAMBDA A :
             InsertEach(insertBlocked(A, sem(i), A.ret), i + 1))

FullStart == InsertEach(LibStart, 0)
InitFull == StartsAs(FullStart) /\ budget = MaxFullSteps

KeysActive == {s_semAdd[s] : s \in ActiveSemds} \cap FullKeys

OverInsert(p) ==
    /\ mode = "lib"
    /\ p \in allocated
    /\ KeysActive = FullKeys \ {onesem}
    /\ Step(insertBlocked(Cur, onesem, p))

NextFull ==
    \/ \E p \in Pcbs : OverInsert(p)
    \/ \E k \in FullKeys, p \in Pcbs : CallInsertBlocked(k, p)
    \/ \E k \in FullKeys : CallRemoveBlocked(k)
    \/ \E p \in Pcbs : CallOutBlocked(p)
    \/ \E k \in FullKeys : CallHeadBlocked(k)

SpecFull == InitFull /\ [][NextFull]_vars

(***************************************************************************)
(* C27: the active list and the free list hold MAXPROC + 2 descriptors     *)
(* between them.  With MAXPROC distinct keys active an insertBlocked with  *)
(* a key that has no entry returns TRUE and leaves the ASL and p_next,     *)
(* p_prev and p_semAdd of the PCB as they were; an insertBlocked with a    *)
(* key that has an entry returns FALSE.                                    *)
(***************************************************************************)
C27_NoFreeDescriptor ==
    [][LET semds == ActiveSemds \cup Range(AslWalk(s_next, semdFree_h, 0))
       IN  mode = "lib" =>
             /\ Cardinality(semds) = MAXPROC + 2
             /\ \A p \in Pcbs : OverInsert(p) =>
                   /\ insertBlocked(Cur, onesem, p).ret = 1
                   /\ AslView' = AslView
                   /\ semdFree_h' = semdFree_h
                   /\ p_next'[p] = p_next[p] /\ p_prev'[p] = p_prev[p]
                   /\ p_semAdd'[p] = p_semAdd[p]
             /\ \A k \in FullKeys, p \in Pcbs :
                   (CallInsertBlocked(k, p) /\ WaitQ(k) # <<>>) =>
                      insertBlocked(Cur, k, p).ret = 0]_vars


(***************************************************************************)
(* C28: removeBlocked(k) returns the PCBs of key k in the order in which   *)
(* insertBlocked put them there: an insertion appends to the queue of the  *)
(* key and a removal returns and takes off its first PCB.  headBlocked(k)  *)
(* is the PCB that removeBlocked(k) would return, NULL for a key without   *)
(* an entry, and a call of it leaves the ASL as it is.  outBlocked(p)      *)
(* returns NULL and changes nothing when p is not on the queue of the key  *)
(* in p_semAdd of p, as it is after an outBlocked(p) that returned p.      *)
(***************************************************************************)
C28_FifoHeadAndOut ==
    [][LET NotQueued(S, p) ==
               \/ S.p_semAdd[p] = NULL
               \/ \A s \in Range(AslWalk(S.s_next, S.semd_h, 0)) :
                     S.s_semAdd[s] = S.p_semAdd[p] =>
                        p \notin Range(ProcQ(S.p_next, S.s_procQ[s]))
           Nothing(S, p) ==
               NotQueued(S, p) => outBlocked(S, p) = Ret(S, NULL)
       IN  mode = "lib" =>
             /\ \A k \in LibKeys :
                   /\ \A p \in Pcbs : CallInsertBlocked(k, p) =>
                         WaitQ(k)' = Append(WaitQ(k), p)
                   /\ CallRemoveBlocked(k) =>
                         IF WaitQ(k) = <<>>
                         THEN removeBlocked(Cur, k).ret = NULL /\ AslView' = AslView
                         ELSE /\ removeBlocked(Cur, k).ret = Head(WaitQ(k))
                              /\ WaitQ(k)' = Tail(WaitQ(k))
                   /\ headBlocked(Cur, k) = removeBlocked(Cur, k).ret
                   /\ WaitQ(k) = <<>> => headBlocked(Cur, k) = NULL
                   /\ CallHeadBlocked(k) =>
                         AslView' = AslView /\ semdFree_h' = semdFree_h
             /\ \A p \in allocated :
                   /\ Nothing(Cur, p)
                   /\ (CallOutBlocked(p) /\ outBlocked(Cur, p).ret = p) =>
                         /\ NotQueued(Cur', p)
                         /\ Nothing(Cur', p)]_vars

(* A PCB taken out by outBlocked still names its key, another PCB is on    *)
(* the queue of that key, and outBlocked is called again.                  *)
C28_OutTwice ==
    /\ mode = "lib"
    /\ steps = MaxLibSteps
    /\ \E p \in allocated :
          /\ p_semAdd[p] \in LibKeys
          /\ BlockedAt(p) = {}
          /\ WaitQ(p_semAdd[p]) # <<>>
          /\ \A q \in allocated \ {p} : BlockedAt(q) # {}


(***************************************************************************)
(* C29: the PCB that allocPcb returns, also one that was used and freed    *)
(* before, has p_next, p_prev, p_prnt, p_child, p_lSib and p_rSib NULL,    *)
(* p_time 0, p_semAdd NULL, p_supportStruct NULL and a processor state of  *)
(* zeros: entryHI, cause, status, pc and the 31 registers.                 *)
(***************************************************************************)
C29_AllocPcbZeroed ==
    [][\A p \in Pcbs :
          (CallAllocPcb /\ allocPcb(Cur).ret = p) =>
             /\ p_next'[p] = NULL /\ p_prev'[p] = NULL
             /\ p_prnt'[p] = NULL /\ p_child'[p] = NULL
             /\ p_lSib'[p] = NULL /\ p_rSib'[p] = NULL
             /\ p_time'[p] = 0
             /\ p_semAdd'[p] = NULL
             /\ p_supportStruct'[p] = NULL
             /\ p_s'[p] = ZeroState]_vars


(***************************************************************************)
(* C30: after initPcbs and allocPcb and freePcb calls that free allocated  *)
(* PCBs only, the free list is a list without repetition of exactly the    *)
(* PCBs that are not allocated.  allocPcb returns NULL if and only if all  *)
(* MAXPROC PCBs are allocated and never returns an allocated PCB; when as  *)
(* many PCBs were freed as allocated all MAXPROC PCBs are free; and a      *)
(* freePcb of the PCB that allocPcb just returned gives the free list the  *)
(* PCBs and the order it had before the allocPcb.                          *)
(***************************************************************************)
RECURSIVE FreeSeqWalk(_, _, _)
FreeSeqWalk(nxt, p, n) ==
    IF p \notin Pcbs \/ n > MAXPROC THEN <<>>
    ELSE <<p>> \o FreeSeqWalk(nxt, nxt[p], n + 1)
FreeSeq(S) == FreeSeqWalk(S.p_next, S.pcbFree_h, 0)

C30_PcbPool ==
    [][LET Pool(S) ==
               /\ Range(FreeSeq(S)) = Pcbs \ S.allocated
               /\ Len(FreeSeq(S)) = Cardinality(Range(FreeSeq(S)))
               /\ (allocPcb(S).ret = NULL) <=> (S.allocated = Pcbs)
               /\ allocPcb(S).ret \notin S.allocated
               /\ S.allocated = {} => Range(FreeSeq(S)) = Pcbs
       IN  mode = "lib" =>
             /\ Pool(Cur) /\ Pool(Cur')
             /\ \A p \in Pcbs :
                   (CallAllocPcb /\ allocPcb(Cur).ret = p) =>
                      /\ allocated' = allocated \cup {p}
                      /\ FreeSeq(Cur) = <<p>> \o FreeSeq(Cur')
                      /\ FreeSeq(freePcb(Cur', p)) = FreeSeq(Cur)
             /\ \A p \in Pcbs :
                   CallFreePcb(p) =>
                      /\ allocated' = allocated \ {p}
                      /\ Range(FreeSeq(Cur')) = Range(FreeSeq(Cur)) \cup {p}]_vars

(* Every PCB was allocated, allocPcb was called once more, and PCBs were   *)
(* freed again.                                                            *)
C30_PoolEmptied ==
    /\ mode = "lib"
    /\ steps > MAXPROC + 1
    /\ Cardinality(allocated) = MAXPROC - 1
    /\ \A p \in Pcbs : BlockedAt(p) = {}


(***************************************************************************)
(* C31: p_time of a process never decreases, and when the process that     *)
(* has run since start_TOD enters the nucleus at time tod, its p_time      *)
(* grows by exactly tod - start_TOD, also when the entry is a SYS6; the    *)
(* p_time of no other process grows by a running interval.                 *)
(***************************************************************************)
C31_CpuTimeCharged ==
    [][\A c \in Pcbs :
          (mode = "run" /\ currentProcess = c /\ tod' = tod /\ mode' # "undef"
             /\ c \in allocated /\ c \in allocated') =>
             /\ p_time'[c] = p_time[c] + (tod - start_TOD)
             /\ \A q \in (allocated \cap allocated') \ {c} : p_time'[q] >= p_time[q]]_vars


(***************************************************************************)
(* C32: a device interrupt that releases a waiter W adds to p_time of W    *)
(* the TOD read at interrupt entry minus start_TOD; the interrupted        *)
(* current process, if there is one, is charged that same interval and     *)
(* nothing for the time the handler runs.                                  *)
(***************************************************************************)
C32_DeviceInterruptCredit ==
    [][\A hw \in HwInputs, r \in TrapRegs, W \in Pcbs :
          (/\ InterruptWith(hw, r)
           /\ EntersDeviceHandler(hw) /\ ServicedInRange(hw)
           /\ W = Waiter(hw)
           /\ mode' # "undef")
          => /\ p_time'[W] = p_time[W] + (tod - start_TOD)
             /\ \A c \in Pcbs \ {W} : c = currentProcess =>
                   p_time'[c] = p_time[c] + (tod - start_TOD)]_vars


(***************************************************************************)
(* C33: main() ends in its call of scheduler(), and after that first       *)
(* dispatch processCount is 1, softBlockedCount is 0, the ready queue is   *)
(* empty, currentProcess is the process main() created, all 49 counters    *)
(* of semaphoreDevices are 0, the ASL has its two sentinels and no other   *)
(* entry, and the PLT holds the time slice of 5000 microseconds.           *)
(***************************************************************************)
C33_AfterBootstrap ==
    [][(steps = 0 /\ Scheduler) =>
          /\ mode = "sched" /\ mode' = "run"
          /\ processCount' = 1
          /\ softBlockedCount' = 0
          /\ readyQueue' = NULL /\ ReadySeq' = <<>>
          /\ allocated' = {currentProcess'}
          /\ ReadySeq = <<currentProcess'>>
          /\ Cardinality(DOMAIN semaphoreDevices') = 49
          /\ \A i \in DOMAIN semaphoreDevices' : semaphoreDevices'[i] = 0
          /\ AslView' = <<<<0, <<>>>>, <<MAXINT, <<>>>>>>
          /\ PLT_TIME_SLICE = 5000
          /\ plt' = Word(PLT_TIME_SLICE)]_vars

(* The first process has been dispatched. *)
C33_FirstDispatch ==
    /\ steps = 1
    /\ mode = "run"
    /\ currentProcess \in allocated


(***************************************************************************)
(* C34: in every nucleus state and for every PCB that is allocated and not *)
(* freed, p_semAdd is not NULL if and only if the PCB is on exactly one    *)
(* wait queue of the ASL, and then on the queue of the entry whose key is  *)
(* p_semAdd; a PCB that is currentProcess or on the ready queue has        *)
(* p_semAdd NULL.                                                          *)
(***************************************************************************)
C34_WaitKeyIffBlocked ==
    mode \in NucleusModes =>
        \A p \in allocated :
            /\ p_semAdd[p] # NULL <=> Cardinality(BlockedAt(p)) = 1
            /\ \A s \in BlockedAt(p) : s_semAdd[s] = p_semAdd[p]
            /\ (p = currentProcess \/ p \in Range(ReadySeq)) => p_semAdd[p] = NULL


(***************************************************************************)
(* The process queue and process tree functions of pcb.c called directly.  *)
(* A test makes an empty queue with mkEmptyProcQ(), takes PCBs from        *)
(* allocPcb and calls insertProcQ with a PCB that is on no queue,          *)
(* removeProcQ, outProcQ with any of its PCBs, insertChild with a PCB that *)
(* has no parent and is not an ancestor of the new parent, removeChild and *)
(* outChild.                                                               *)
(***************************************************************************)
MaxPcbSteps == 9
InitPcb == StartsAs([LibStart EXCEPT !.readyQueue = NULL]) /\ budget = MaxPcbSteps

CallInsertProcQ(p) ==
    /\ mode = "lib"
    /\ p \in allocated /\ p \notin Range(ReadySeq)
    /\ Step(insertProcQ(Cur, 0, p))
CallRemoveProcQ == mode = "lib" /\ Step(removeProcQ(Cur, 0))
CallOutProcQ(p) == mode = "lib" /\ p \in allocated /\ Step(outProcQ(Cur, 0, p))
CallInsertChild(prnt, p) ==
    /\ mode = "lib"
    /\ prnt \in allocated /\ p \in allocated
    /\ p_prnt[p] = NULL
    /\ prnt \notin Descendants(p) \cup {p}
    /\ Step(insertChild(Cur, prnt, p))
CallRemoveChild(p) == mode = "lib" /\ p \in allocated /\ Step(removeChild(Cur, p))
CallOutChild(p) == mode = "lib" /\ p \in allocated /\ Step(outChild(Cur, p))

NextPcb ==
    \/ CallAllocPcb
    \/ \E p \in Pcbs : CallInsertProcQ(p)
    \/ CallRemoveProcQ
    \/ \E p \in Pcbs : CallOutProcQ(p)
    \/ \E prnt \in Pcbs, p \in Pcbs : CallInsertChild(prnt, p)
    \/ \E p \in Pcbs : CallRemoveChild(p)
    \/ \E p \in Pcbs : CallOutChild(p)

SpecPcb == InitPcb /\ [][NextPcb]_vars


(***************************************************************************)
(* C35: insertProcQ puts the PCB at the tail of the queue and removeProcQ  *)
(* takes the head off and returns it, so PCBs leave in the order of their  *)
(* insertion.  outProcQ(q, p) with p in q returns p and takes exactly p    *)
(* out: the other PCBs keep their order and the tail pointer is the last   *)
(* of them, NULL if none is left; with p not in q, or q empty, it returns  *)
(* NULL and changes nothing.  A removed PCB has p_next and p_prev NULL.    *)
(***************************************************************************)
C35_ProcQ ==
    [][LET Q == ReadySeq
           Ring(S) ==
               LET q == ProcQ(S.p_next, S.readyQueue)
               IN  /\ S.readyQueue = (IF q = <<>> THEN NULL ELSE q[Len(q)])
                   /\ \A i \in 1..Len(q) :
                         S.p_prev[q[i]] = (IF i = 1 THEN q[Len(q)] ELSE q[i - 1])
                   /\ Len(q) = Cardinality(Range(q))
       IN  mode = "lib" =>
             /\ Ring(Cur) /\ Ring(Cur')
             /\ \A p \in Pcbs : CallInsertProcQ(p) => Q' = Append(Q, p)
             /\ CallRemoveProcQ =>
                   IF Q = <<>>
                   THEN removeProcQ(Cur, 0) = Ret(Cur, NULL)
                   ELSE /\ removeProcQ(Cur, 0).ret = Head(Q)
                        /\ Q' = Tail(Q)
                        /\ p_next'[Head(Q)] = NULL /\ p_prev'[Head(Q)] = NULL
             /\ \A p \in Pcbs : CallOutProcQ(p) =>
                   IF p \in Range(Q)
                   THEN /\ outProcQ(Cur, 0, p).ret = p
                        /\ Q' = SelectSeq(Q, LAMBDA x : x # p)
                        /\ p_next'[p] = NULL /\ p_prev'[p] = NULL
                   ELSE outProcQ(Cur, 0, p) = Ret(Cur, NULL)]_vars

(* Three PCBs have been inserted and are on the queue, with calls to come. *)
C35_ThreeQueued ==
    /\ mode = "lib"
    /\ Len(ReadySeq) = 3
    /\ steps < MaxPcbSteps


(***************************************************************************)
(* C36: after any insertChild, removeChild and outChild calls the tree is  *)
(* acyclic and its links agree: a PCB with a parent is exactly once in the *)
(* child list of that parent, the first child of a parent has p_lSib NULL, *)
(* the last child has p_rSib NULL, for siblings a and b p_rSib of a is b   *)
(* if and only if p_lSib of b is a, and a PCB without a parent has p_lSib  *)
(* and p_rSib NULL; outChild of a PCB without a parent returns NULL and    *)
(* changes nothing.                                                        *)
(***************************************************************************)
C36_ProcessTree ==
    [][LET Kids(S, p) ==
               LET RECURSIVE walk(_, _)
                   walk(c, n) == IF c \notin Pcbs \/ n > MAXPROC THEN <<>>
                                 ELSE <<c>> \o walk(S.p_rSib[c], n + 1)
               IN  walk(S.p_child[p], 0)
           Tree(S) ==
               /\ \A p \in S.allocated :
                     LET k == Kids(S, p)
                     IN  /\ Len(k) = Cardinality(Range(k))
                         /\ \A i \in 1..Len(k) : S.p_prnt[k[i]] = p
                         /\ Len(k) > 0 => S.p_lSib[k[1]] = NULL
                         /\ Len(k) > 0 => S.p_rSib[k[Len(k)]] = NULL
               /\ \A a \in S.allocated, b \in S.allocated :
                     (S.p_rSib[a] = b) <=> (S.p_lSib[b] = a)
               /\ \A p \in S.allocated :
                     IF S.p_prnt[p] = NULL
                     THEN S.p_lSib[p] = NULL /\ S.p_rSib[p] = NULL
                     ELSE /\ S.p_prnt[p] \in S.allocated
                          /\ p \in Range(Kids(S, S.p_prnt[p]))
               /\ \A p \in S.allocated : p \notin Descendants(p)
       IN  mode = "lib" =>
             /\ Tree(Cur')
             /\ \A p \in allocated :
                   p_prnt[p] = NULL => outChild(Cur, p) = Ret(Cur, NULL)]_vars


(***************************************************************************)
(* C37: an interval timer interrupt or a device interrupt taken while a    *)
(* process is current does not preempt it: after the handler the process   *)
(* is still currentProcess and runs, the ready queue has not got it, its   *)
(* p_s is the state saved at the interrupt, and the PLT holds the time     *)
(* that was left of the slice at the interrupt.                            *)
(***************************************************************************)
C37_InterruptResumesCurrent ==
    [][\A hw \in HwInputs, r \in TrapRegs, c \in Pcbs :
          (/\ InterruptWith(hw, r)
           /\ mode = "run" /\ currentProcess = c
           /\ 1 \notin hw.ip /\ hw.ip \cap {2, 3} # {})
          => /\ mode' = "run"
             /\ currentProcess' = c
             /\ c \notin Range(ReadySeq') \ Range(ReadySeq)
             /\ p_s'[c] = [s_hdr |-> 1, s_cause |-> 0, s_reg |-> r, s_v0 |-> 7]
             /\ plt' = Word(hw.left)]_vars


(***************************************************************************)
(* C38: a semaphore outside semaphoreDevices that starts at 0 without      *)
(* waiters and is changed by SYS3, SYS4 and SYS2 only has, in every        *)
(* nucleus state, as many PCBs blocked on it as its value is below 0, and  *)
(* none when its value is 0 or more.                                       *)
(***************************************************************************)
C38_WaitersMatchValue ==
    mode \in NucleusModes =>
        \A a \in UserSems :
            /\ Len(WaitQ(a)) = (IF mem[a] < 0 THEN 0 - mem[a] ELSE 0)
            /\ Cardinality({p \in allocated : BlockedAt(p) # {} /\ p_semAdd[p] = a})
                  = (IF mem[a] < 0 THEN 0 - mem[a] ELSE 0)


(***************************************************************************)
(* C39: in every nucleus state a PCB that is not allocated is not          *)
(* currentProcess (so the scheduler has not dispatched it), not on the     *)
(* ready queue, not on a wait queue of the ASL, and no allocated PCB has   *)
(* it as its parent, its child or its sibling.                             *)
(***************************************************************************)
C39_FreedPcbUnreachable ==
    mode \in NucleusModes =>
        \A f \in Pcbs \ allocated :
            /\ currentProcess # f
            /\ f \notin Range(ReadySeq)
            /\ BlockedAt(f) = {}
            /\ \A q \in allocated :
                  /\ p_prnt[q] # f
                  /\ f \notin Children(q)
                  /\ p_prnt[q] \in Pcbs => f \notin Children(p_prnt[q])


(***************************************************************************)
(* C40: in every nucleus state the active list holds, besides its two      *)
(* sentinels, at most as many descriptors as there are blocked PCBs and at *)
(* most MAXPROC; and when SYS3, SYS5 or SYS7 blocks the current process,   *)
(* insertBlocked finds or allocates a descriptor for every key, returns    *)
(* FALSE, and the process is afterwards on exactly one wait queue.         *)
(***************************************************************************)
C40_InsertBlockedNeverFails ==
    [][LET Entries(sNext, sKey, h) ==
               {s \in Range(AslWalk(sNext, h, 0)) : sKey[s] \notin {0, MAXINT}}
       IN  /\ mode \in NucleusModes =>
                /\ Cardinality(Entries(s_next, s_semAdd, semd_h))
                      <= Cardinality({p \in Pcbs : BlockedAt(p) # {}})
                /\ Cardinality(Entries(s_next, s_semAdd, semd_h)) <= MAXPROC
           /\ mode' \in NucleusModes =>
                /\ Cardinality(Entries(s_next', s_semAdd', semd_h'))
                      <= Cardinality({p \in Pcbs : BlockedAt(p)' # {}})
                /\ Cardinality(Entries(s_next', s_semAdd', semd_h')) <= MAXPROC
           /\ \A c \in Pcbs :
                (/\ mode = "run" /\ c = currentProcess
                 /\ SYS3 \/ SYS5 \/ SYS7
                 /\ mode' = "sched" /\ currentProcess' = NULL)
                => /\ \A k \in UserSems \cup {semaphoreDevicesAddr(i) : i \in DevIdx} :
                         insertBlocked(Cur, k, c).ret = 0
                   /\ Cardinality(BlockedAt(c)') = 1
                   /\ \A s \in BlockedAt(c)' : s_semAdd'[s] = p_semAdd'[c]]_vars

=============================================================================
